---- MODULE Spec2Model ----
(***************************************************************************)
(* The backup-deletion controller of remote-velero: processQueueItem and   *)
(* processRequest working against the cluster API (DeleteBackupRequests,   *)
(* Backups, Restores, BackupStorageLocations), the backup store, the       *)
(* plugin manager and the backup tracker; and deleteExpiredRequests, the    *)
(* periodic pass that deletes Processed requests older than 24 hours.      *)
(*                                                                         *)
(* The controller is exercised by the tests in                             *)
(* src/pkg/cmd/cli/restic/server.go (TestBackupDeletionController...).     *)
(* The order of the API calls and their payloads are the ones the tests    *)
(* assert; the cascade's handling of failures, which no test exercises,    *)
(* follows the design document.                                            *)
(***************************************************************************)
EXTENDS Naturals, Sequences, FiniteSets, TLC

\* ------------------------------------------------------------------ bounds
\* failures injected into collaborator calls in one behaviour
MaxFailures == 2

\* seconds the clock advances in one behaviour
MaxTicks == 1

\* --------------------------------------------------------------- constants
\* k8s.io/apimachinery validation.DNS1035LabelMaxLength, the limit the long
\* name of the test exceeds
DNS1035LabelMaxLength == 63

\* the sweeper's retention: a Processed request is expired 24 hours after
\* its creation (in seconds)
MaxAge == 86400

\* the times of the sweeper's test, in seconds after the earliest of them:
\* 2018-04-03 02:00:00, 2018-04-03 12:00:00, 2018-04-03 12:00:01,
\* 2018-04-04 11:00:00 and, for the clock, 2018-04-04 12:00:00
Expired2 == 0
Expired1 == 36000
Unexpired2 == 36001
Unexpired1 == 118800
Now0 == 122400

Namespace == "velero"

LongName == "the-really-long-backup-name-that-is-much-more-than-63-characters"
LongLabel == "the-really-long-backup-name-that-is-much-more-than-63-cha6ca4bc"

BackupNames == {"foo", LongName}
\* the backups the backup controller may be making
Creating == {"foo"}
ReqNames == {"foo-abcde", "bar", "bar-2"}
LocationName == "default"

\* length of a backup name
NameLen(name) == IF name = LongName THEN 64 ELSE IF name = "foo" THEN 3 ELSE 0

\* label.GetValidName: a name that fits a label value is used as it is, a
\* longer one is cut to 57 characters and gets 6 characters of its hash
GetValidName(name) ==
    IF NameLen(name) <= DNS1035LabelMaxLength THEN name ELSE LongLabel

\* the UID of a backup
UIDOf(b) == IF b = "foo" THEN "uid" ELSE "uid-long"

\* the restores of the namespace and the backup each was made from
RestoreBackup(r) == IF r \in {"restore-1", "restore-2"} THEN "foo" ELSE LongName
RestoreNames == {"restore-1", "restore-2", "restore-3"}

\* the volume snapshots the backup store records for a backup
GetBackupVolumeSnapshots(b) == IF b = "foo" THEN {"snap-1"} ELSE {"snap-2"}

Phases == {"", "New", "InProgress", "Processed"}

VARIABLES
    requests,         \* DeleteBackupRequests of the namespace, by name
    backups,          \* Backups of the namespace, by name
    location,         \* the BackupStorageLocation: "absent", "ReadWrite", "ReadOnly"
    restores,         \* names of the Restore objects in the cluster
    storeRestores,    \* restores whose results are in the backup store
    storeBackups,     \* backups whose data is in the backup store
    snapshotsTaken,   \* provider snapshots that exist (FakeVolumeSnapshotter)
    deleteItemActions,\* number of registered DeleteItemAction plugins
    tracker,          \* backupTracker: set of <<namespace, name>>
    queue,            \* keys waiting in the work queue
    pc,               \* position of the worker in processRequest
    cur,              \* the request the worker processes: its name and spec.backupName
    errs,             \* the run's accumulated errors
    pluginHeld,       \* the run holds a plugin manager not yet cleaned up
    log,              \* the run's calls, in order (client.Actions and mock calls)
    ret,              \* what the last run returned: "none", "nil", "err"
    nfail,            \* failures injected so far
    used,             \* request names given out so far (generateName never repeats)
    now,              \* the clock, in seconds
    sweepLog,         \* the delete calls of the sweeper's last pass, in order
    sweptAt,          \* the clock's reading at the sweeper's last pass, if any
    secrets,          \* the Secrets of the factory's namespace: name -> data
    httpsProxy,       \* factory.httpsProxy
    srcClusterHost,   \* factory.srcClusterHost
    destClusterHost,  \* factory.destClusterHost
    config,           \* what the last SourceClientConfig or
                      \* DestinationClientConfig returned, until a client is
                      \* built from it
    lastCall,         \* per <<namespace, name>>: the last of Add and Delete
                      \* called on the backupTracker for it, "" if none
    answer,           \* the last Contains call and what it returned
    guardCalls,       \* per concurrent caller of the backupTracker: its call
                      \* and how far it has got
    guardLock,        \* the callers holding the backupTracker's lock
    labels,           \* the backup-name labels written so far, by backup
                      \* name, names and labels character by character
    interrupted,      \* the runs cut short by the end of the worker's process:
                      \* the key and the backup of each, and the place it
                      \* had reached
    possible          \* the sets the backupTracker may hold after the calls
                      \* so far, taken one at a time in an order that agrees
                      \* with their real-time order and their results, with
                      \* the pending calls each such order has placed already

vars == <<requests, backups, location, restores, storeRestores, storeBackups,
          snapshotsTaken, deleteItemActions, tracker, queue, pc, cur, errs,
          pluginHeld, log, ret, nfail, used, now, sweepLog, sweptAt,
          secrets, httpsProxy, srcClusterHost, destClusterHost, config,
          lastCall, answer, guardCalls, guardLock, possible, labels, interrupted>>

cluster == <<backups, location, restores>>
store == <<storeRestores, storeBackups, snapshotsTaken>>
sweeper == <<now, sweepLog, sweptAt>>
factoryState == <<secrets, httpsProxy, srcClusterHost, destClusterHost, config>>
\* what the backup deletion controller has no hand in
guardState == <<lastCall, answer, guardCalls, guardLock, possible>>
outside == <<factoryState, guardState, labels, interrupted>>
env == <<deleteItemActions, tracker, used, sweeper, outside>>
\* the backup deletion controller, its tracker left aside
controller == <<requests, cluster, store, deleteItemActions, used, sweeper, queue,
                pc, cur, errs, pluginHeld, log, ret, nfail, interrupted>>

\* ------------------------------------------------- client factory: values
srcClusterSecretName == "srccluster"
destClusterSecretName == "destcluster"
remoteClusterSecretName == "remotecluster"
SecretNames == {remoteClusterSecretName, srcClusterSecretName, destClusterSecretName}

\* serviceAcctCreds{}: the zero value
NoCreds == [host |-> "", saToken |-> "", kubeconfig |-> "", httpsProxy |-> ""]

\* a kubeconfig clientcmd.RESTConfigFromKubeConfig cannot load
BadKubeconfig == "not-a-kubeconfig"

\* what a Secret's Data gives for the keys host, sa-token, kubeconfig and
\* https_proxy (a key that is not there reads as ""): no key at all, host
\* and token, host and token with a proxy, all four keys, a kubeconfig
\* only, a kubeconfig that does not load, a proxy only
SecretData ==
    {NoCreds,
     [host |-> "https://a", saToken |-> "token-a", kubeconfig |-> "", httpsProxy |-> ""],
     [host |-> "https://b", saToken |-> "token-b", kubeconfig |-> "",
      httpsProxy |-> "http://proxy-1"],
     [host |-> "https://a", saToken |-> "token-a", kubeconfig |-> "kubeconfig-1",
      httpsProxy |-> "http://proxy-2"],
     [host |-> "", saToken |-> "", kubeconfig |-> "kubeconfig-2", httpsProxy |-> ""],
     [host |-> "https://b", saToken |-> "", kubeconfig |-> BadKubeconfig, httpsProxy |-> ""],
     [host |-> "", saToken |-> "", kubeconfig |-> "", httpsProxy |-> "http://proxy-1"]}

\* the value of the --httpsproxy flag when it is given
FlagProxy == "http://flag-proxy"

\* no configuration is waiting for a client to be built from it
NoConfig ==
    [role |-> "", kind |-> "none", Host |-> "", BearerToken |-> "", Insecure |-> FALSE,
     kubeconfig |-> "", proxy |-> "", reads |-> <<>>]

\* ----------------------------------------------------- backupTracker: values
GuardNamespaces == {Namespace, "ns"}
GuardNames == {"foo", "bar"}
GuardKeys == GuardNamespaces \X GuardNames

\* the goroutines of the backup controller, which call Add and Delete, and
\* the workers of the backup deletion controller, which call Contains
GuardWriters == {"backup-1", "backup-2"}
GuardReaders == {"worker-1", "worker-2"}
GuardCallers == GuardWriters \cup GuardReaders

\* the backups the concurrent callers call about: each goroutine of the
\* backup controller about the backup it creates, the workers about both
ConcurrentKeys == {<<Namespace, "foo">>, <<"ns", "foo">>}
KeysOf(p) ==
    IF p = "backup-1" THEN {<<Namespace, "foo">>}
    ELSE IF p = "backup-2" THEN {<<"ns", "foo">>}
    ELSE ConcurrentKeys

\* no Contains call yet
NoAnswer == [ns |-> "", name |-> "", result |-> FALSE]

\* a caller between two calls
NoCall == [op |-> "", ns |-> "", name |-> "", at |-> "idle", snapshot |-> {}]

\* no call of the backupTracker has been made
GuardInit ==
    /\ lastCall = [k \in GuardKeys |-> ""]
    /\ answer = NoAnswer
    /\ guardCalls = [p \in GuardCallers |-> NoCall]
    /\ guardLock = {}
    /\ possible = {[value |-> {}, placed |-> {}]}

\* a factory made without the flag, in a namespace without Secrets
FactoryQuiet ==
    /\ secrets = <<>>
    /\ httpsProxy = ""
    /\ srcClusterHost = ""
    /\ destClusterHost = ""
    /\ config = NoConfig

OutsideInit ==
    /\ FactoryQuiet
    /\ GuardInit
    /\ labels = <<>>
    /\ interrupted = <<>>

\* ----------------------------------------------------------------- helpers
\* a call of the run: arg is the call's payload, a sequence of strings; ok
\* is its success (for a get and for Contains: whether the object was found)
Call(verb, res, name, arg, ok) ==
    [verb |-> verb, res |-> res, name |-> name, arg |-> arg, ok |-> ok]

\* pkgbackup.NewDeleteBackupRequest(name, uid): labelled with both labels
NewDeleteBackupRequest(name, uid) ==
    [backupName |-> name, phase |-> "", errors |-> <<>>,
     nameLabel |-> GetValidName(name), uidLabel |-> uid, created |-> 0]

\* a request whose labels were cleared (td.req.Labels = nil)
Unlabelled(r) == [r EXCEPT !.nameLabel = "", !.uidLabel = ""]

\* outcomes a fallible call may have: failures are limited by MaxFailures
Outcomes == IF nfail < MaxFailures THEN {TRUE, FALSE} ELSE {TRUE}
Failed(ok) == IF ok THEN nfail ELSE nfail + 1

Without(f, S) == [n \in (DOMAIN f) \ S |-> f[n]]
With(f, n, v) == [m \in (DOMAIN f) \cup {n} |-> IF m = n THEN v ELSE f[m]]

Req == requests[cur.name]

\* --------------------------------------------------------------------- Init
\* the requests the tests start from: the request under test, for no backup
\* or for backup foo, with or without its labels; an older request for foo
\* carrying the backup-name label only; a request for another backup that
\* was processed before
RequestKinds == {"absent", "", "foo", "foo-nolabels", "foo-namelabel", "other-processed"}

InitRequests ==
    {f \in [ReqNames -> RequestKinds] :
        /\ f["foo-abcde"] \in {"", "foo", "foo-nolabels"}
        /\ f["bar"] \in {"absent", "foo-namelabel"}
        /\ f["bar-2"] = "other-processed"}

RequestOfKind(kind) ==
    CASE kind = "" -> Unlabelled(NewDeleteBackupRequest("", ""))
      [] kind = "foo" -> NewDeleteBackupRequest("foo", UIDOf("foo"))
      [] kind = "foo-nolabels" -> Unlabelled(NewDeleteBackupRequest("foo", ""))
      [] kind = "foo-namelabel" ->
            [NewDeleteBackupRequest("foo", "") EXCEPT !.uidLabel = ""]
      [] OTHER -> [NewDeleteBackupRequest(LongName, UIDOf(LongName)) EXCEPT
                      !.phase = "Processed", !.errors = <<"backup not found">>]

\* the requests the worker starts from were created a day ago
RequestOf(kind) == [RequestOfKind(kind) EXCEPT !.created = Expired1]

Backup(b) == [phase |-> "Completed", uid |-> UIDOf(b), storageLocation |-> LocationName]

Init ==
    /\ \E f \in InitRequests :
          requests = [n \in {m \in ReqNames : f[m] # "absent"} |-> RequestOf(f[n])]
    /\ \E B \in {{LongName}, BackupNames} :
          /\ backups = [b \in B |-> Backup(b)]
          /\ storeBackups = B
          /\ snapshotsTaken = UNION {GetBackupVolumeSnapshots(b) : b \in B}
    /\ location \in {"absent", "ReadWrite", "ReadOnly"}
    /\ \E R \in {{"restore-3"}, {"restore-1", "restore-3"}, RestoreNames} :
          /\ restores = R
          /\ storeRestores = R
    /\ deleteItemActions \in {0, 1}
    /\ tracker = {}
    /\ queue = DOMAIN requests
    /\ pc = "idle"
    /\ cur = [name |-> "", backupName |-> ""]
    /\ errs = <<>>
    /\ pluginHeld = FALSE
    /\ log = <<>>
    /\ ret = "none"
    /\ nfail = 0
    /\ used = DOMAIN requests
    /\ now = Now0
    /\ sweepLog = <<>>
    /\ sweptAt = <<>>
    /\ OutsideInit

\* -------------------------------------------------------------- environment
\* the backup controller marks a backup it is creating (backupTracker.Add)
TrackerAdd(b) ==
    /\ <<Namespace, b>> \notin tracker
    /\ tracker' = tracker \cup {<<Namespace, b>>}
    /\ UNCHANGED <<requests, cluster, store, deleteItemActions, used, sweeper, queue,
                   pc, cur, errs, pluginHeld, log, ret, nfail, outside>>

\* ... and unmarks it when the backup has finished (backupTracker.Delete)
TrackerDelete(b) ==
    /\ <<Namespace, b>> \in tracker
    /\ tracker' = tracker \ {<<Namespace, b>>}
    /\ UNCHANGED <<requests, cluster, store, deleteItemActions, used, sweeper, queue,
                   pc, cur, errs, pluginHeld, log, ret, nfail, outside>>

\* a client creates a DeleteBackupRequest for a backup; the informer's add
\* handler puts its key on the queue
CreateRequest(n, b) ==
    /\ n \notin used
    /\ \E phase \in {"", "New"} :
          requests' = With(requests, n,
                           [NewDeleteBackupRequest(b, UIDOf(b)) EXCEPT
                               !.phase = phase, !.created = now])
    /\ queue' = queue \cup {n}
    /\ used' = used \cup {n}
    /\ UNCHANGED <<cluster, store, deleteItemActions, tracker, sweeper,
                   pc, cur, errs, pluginHeld, log, ret, nfail, outside>>

\* ------------------------------------------------------- the request's patch
\* patchDeleteBackupRequest: the request in the cluster with its status set
SetStatus(n, phase, errors) ==
    [requests EXCEPT ![n].phase = phase, ![n].errors = errors]

PatchCall(arg, ok) == Call("patch", "deletebackuprequests", cur.name, arg, ok)

\* mutant: the validation failure is returned to the caller as an error
RejectReturningError(error, calls) ==
    /\ requests' = SetStatus(cur.name, "Processed", <<error>>)
    /\ log' = log \o calls \o <<PatchCall(<<"Processed", error>>, TRUE)>>
    /\ ret' = "err"
    /\ pc' = "done"

\* a validation failure: the request becomes Processed with the one error,
\* and processRequest returns nil
Reject(error, calls) ==
    /\ requests' = SetStatus(cur.name, "Processed", <<error>>)
    /\ log' = log \o calls \o <<PatchCall(<<"Processed", error>>, TRUE)>>
    /\ ret' = "nil"
    /\ pc' = "done"

\* ------------------------------------------------------------ processQueueItem
\* mutant: a Processed request is processed again
AlreadyProcessedNever(phase) == FALSE

\* mutant: a request left InProgress by a failed run is not processed again
AlreadyProcessedOrInProgress(phase) == phase \in {"Processed", "InProgress"}

\* req.Status.Phase is DeleteBackupRequestPhaseProcessed
AlreadyProcessed(phase) == phase = "Processed"

\* the key's request is looked up in the cache; a request that is gone or is
\* already Processed is left alone, any other is handed to processRequest
ProcessQueueItem(key) ==
    /\ pc = "idle"
    /\ key \in queue
    /\ queue' = queue \ {key}
    /\ cur' = [name |-> key,
               backupName |-> IF key \in DOMAIN requests
                                 THEN requests[key].backupName ELSE ""]
    /\ log' = <<>>
    /\ errs' = <<>>
    /\ IF key \in DOMAIN requests /\ ~AlreadyProcessed(requests[key].phase)
          THEN /\ pc' = "validate"
               /\ ret' = "none"
          ELSE /\ pc' = "done"
               /\ ret' = "nil"
    /\ UNCHANGED <<requests, cluster, store, env, pluginHeld, nfail>>

\* mutant: a key whose processing failed is dropped
AddRateLimitedNever(q, key, r) == q

\* the key of a run that returned an error goes back on the queue
AddRateLimited(q, key, r) == IF r = "err" THEN q \cup {key} ELSE q

\* the worker is done with the key; a key whose processing returned an error
\* is put back on the queue
Return ==
    /\ pc = "done"
    /\ pc' = "idle"
    /\ queue' = AddRateLimited(queue, cur.name, ret)
    /\ UNCHANGED <<requests, cluster, store, env, cur, errs, pluginHeld, log,
                   ret, nfail>>

\* --------------------------------------------------------------- processRequest
\* mutant: the backup name is not validated
BackupNameNeverMissing(name) == FALSE

BackupNameMissing(name) == name = ""

\* the backup name is required
Validate ==
    /\ pc = "validate"
    /\ IF BackupNameMissing(cur.backupName)
          THEN Reject("spec.backupName is required", <<>>)
          ELSE /\ pc' = "dedupe"
               /\ UNCHANGED <<requests, log, ret>>
    /\ UNCHANGED <<cluster, store, env, queue, cur, errs, pluginHeld, nfail>>

RECURSIVE SeqOf(_)
SeqOf(S) == IF S = {} THEN <<>>
            ELSE LET x == CHOOSE y \in S : TRUE IN <<x>> \o SeqOf(S \ {x})

\* mutant: the requests are not selected by the backup-name label
ExistingDeletionRequestsOfNamespace == {n \in DOMAIN requests : n # cur.name}

\* the other requests of the namespace labelled for the same backup
ExistingDeletionRequests ==
    {n \in DOMAIN requests :
        /\ n # cur.name
        /\ requests[n].nameLabel = GetValidName(cur.backupName)}

\* deleteExistingDeletionRequests: only one request at a time per backup
DeleteExistingDeletionRequests ==
    /\ pc = "dedupe"
    /\ LET victims == SeqOf(ExistingDeletionRequests)
       IN  /\ requests' = Without(requests, ExistingDeletionRequests)
           /\ log' = log \o [i \in DOMAIN victims |->
                        Call("delete", "deletebackuprequests", victims[i], <<>>, TRUE)]
    /\ pc' = "tracker"
    /\ UNCHANGED <<cluster, store, env, queue, cur, errs, pluginHeld, ret, nfail>>

\* mutant: the tracker is asked with name and namespace swapped
ContainsSwapped(ns, name) == <<name, ns>> \in tracker

\* backupTracker.Contains
Contains(ns, name) == <<ns, name>> \in tracker

\* the tracker's entry for the request's backup at the time it is asked
Tracked == IF <<Namespace, cur.backupName>> \in tracker THEN <<"active">> ELSE <<>>

\* a backup that is still being made is not deleted
\* mutant: the request is patched to InProgress before the backup is got
AfterTrackerInProgress == "inProgress"

\* what processRequest does after the tracker's check: it gets the backup
AfterTracker == "getBackup"

CheckTracker ==
    /\ pc = "tracker"
    /\ IF Contains(Namespace, cur.backupName)
          THEN Reject("backup is still in progress",
                      <<Call("contains", "tracker", cur.backupName, Tracked, TRUE)>>)
          ELSE /\ pc' = AfterTracker
               /\ log' = Append(log, Call("contains", "tracker", cur.backupName, Tracked, FALSE))
               /\ UNCHANGED <<requests, ret>>
    /\ UNCHANGED <<cluster, store, env, queue, cur, errs, pluginHeld, nfail>>

\* the backup to delete is fetched
GetBackup ==
    /\ pc = "getBackup"
    /\ LET found == cur.backupName \in DOMAIN backups
           get == Call("get", "backups", cur.backupName, <<>>, found)
       IN  IF found
              THEN /\ pc' = "getLocation"
                   /\ log' = Append(log, get)
                   /\ UNCHANGED <<requests, ret>>
              ELSE Reject("backup not found", <<get>>)
    /\ UNCHANGED <<cluster, store, env, queue, cur, errs, pluginHeld, nfail>>

\* mutant: a missing location is not noticed
LocationFoundAlways(mode) == TRUE

\* kbClient.Get finds the location
LocationFound(mode) == mode # "absent"

\* mutant: the access mode is compared with the wrong constant
IsReadOnlyInverted(mode) == mode = "ReadWrite"

\* location.Spec.AccessMode is BackupStorageLocationAccessModeReadOnly
IsReadOnly(mode) == mode = "ReadOnly"

\* the backup's storage location must exist and be writable
GetLocation ==
    /\ pc = "getLocation"
    /\ LET name == backups[cur.backupName].storageLocation
           get == Call("get", "backupstoragelocations", name, <<location>>,
                       LocationFound(location))
       IN  CASE ~LocationFound(location) ->
                  Reject("backup storage location " \o name \o " not found", <<get>>)
             [] IsReadOnly(location) ->
                  Reject("cannot delete backup because backup storage location "
                         \o name \o " is currently in read-only mode", <<get>>)
             [] OTHER ->
                  /\ pc' = "inProgress"
                  /\ log' = Append(log, get)
                  /\ UNCHANGED <<requests, ret>>
    /\ UNCHANGED <<cluster, store, env, queue, cur, errs, pluginHeld, nfail>>

\* mutant: the error of the patch is ignored
NextAfterPatchIgnoringError(ok, next) == next

\* where processRequest goes after a patch it cannot do without: on, or back
\* to the caller with the patch's error
NextAfterPatch(ok, next) == IF ok THEN next ELSE "done"

\* the request becomes InProgress and gets its backup-name label if it has
\* none; a failure of the patch is returned to the caller
PatchInProgress ==
    /\ pc = "inProgress"
    /\ \E ok \in Outcomes :
          /\ log' = Append(log, PatchCall(
                        IF Req.nameLabel = ""
                           THEN <<"InProgress", GetValidName(cur.backupName)>>
                           ELSE <<"InProgress">>, ok))
          /\ nfail' = Failed(ok)
          /\ requests' = IF ok
                THEN [requests EXCEPT
                        ![cur.name].phase = "InProgress",
                        ![cur.name].nameLabel = IF @ = "" THEN GetValidName(cur.backupName)
                                                ELSE @]
                ELSE requests
          /\ pc' = NextAfterPatch(ok, "uidLabel")
          /\ ret' = IF pc' = "done" THEN "err" ELSE ret
    /\ UNCHANGED <<cluster, store, env, queue, cur, errs, pluginHeld>>

\* the request gets its backup-uid label if it has none
PatchUIDLabel ==
    /\ pc = "uidLabel"
    /\ IF Req.uidLabel = ""
          THEN /\ requests' = [requests EXCEPT
                      ![cur.name].uidLabel = backups[cur.backupName].uid]
               /\ log' = Append(log, PatchCall(<<"backup-uid", backups[cur.backupName].uid>>, TRUE))
          ELSE UNCHANGED <<requests, log>>
    /\ pc' = "deleting"
    /\ UNCHANGED <<cluster, store, env, queue, cur, errs, pluginHeld, ret, nfail>>

\* patchBackup: the backup becomes Deleting; a failure of the patch is
\* returned to the caller
PatchDeleting ==
    /\ pc = "deleting"
    /\ \E ok \in Outcomes :
          /\ log' = Append(log, Call("patch", "backups", cur.backupName, <<"Deleting">>, ok))
          /\ nfail' = Failed(ok)
          /\ backups' = IF ok THEN [backups EXCEPT ![cur.backupName].phase = "Deleting"]
                              ELSE backups
          /\ pc' = NextAfterPatch(ok, "plugins")
          /\ ret' = IF pc' = "done" THEN "err" ELSE ret
    /\ UNCHANGED <<requests, location, restores, store, env, queue, cur, errs,
                   pluginHeld>>

\* newPluginManager, with its deferred CleanupClients, and the backup store
NewPluginManager ==
    /\ pc = "plugins"
    /\ pluginHeld' = TRUE
    /\ log' = Append(log, Call("GetDeleteItemActions", "plugin", "", <<>>, TRUE))
    /\ pc' = "itemActions"
    /\ UNCHANGED <<requests, cluster, store, env, queue, cur, errs, ret, nfail>>

\* mutant: the tarball is downloaded whether plugins are registered or not
HasDeleteItemActionsAlways(n) == TRUE

\* len(actions) > 0 for the plugin manager's GetDeleteItemActions
HasDeleteItemActions(n) == n > 0

\* mutant: the actions are run without a tarball
ActionsInvokedAlways(ok) == TRUE

\* the actions are run on the downloaded tarball only
ActionsInvoked(ok) == ok

\* with DeleteItemAction plugins registered, the backup's tarball is
\* downloaded and handed to them; a failed download is logged and the
\* actions are skipped
InvokeDeleteActions ==
    /\ pc = "itemActions"
    /\ IF HasDeleteItemActions(deleteItemActions)
          THEN \E ok \in Outcomes :
                 /\ nfail' = Failed(ok)
                 /\ log' = log
                       \o <<Call("GetBackupContents", "storage", cur.backupName, <<>>, ok)>>
                       \o (IF ActionsInvoked(ok)
                              THEN <<Call("Execute", "plugin", cur.backupName, <<>>, TRUE)>>
                              ELSE <<>>)
          ELSE UNCHANGED <<log, nfail>>
    /\ pc' = "snapshots"
    /\ UNCHANGED <<requests, cluster, store, env, queue, cur, errs, pluginHeld, ret>>

\* mutant: a step's errors replace the errors of the run
AccumulateLast(es, new) == new

\* a step's errors are added to the errors of the run
Accumulate(es, new) == es \o new

\* the failures a loop over S may inject
Failures(S) == {F \in SUBSET S : nfail + Cardinality(F) <= MaxFailures}

\* volume.Snapshot.Spec.Location: the VolumeSnapshotLocation of a snapshot
SnapshotLocation(snapshot) == IF snapshot = "snap-1" THEN "vsl-1" ELSE "vsl-2"

\* VolumeSnapshotLocation.Spec.Provider
VolumeSnapshotLocationProvider(vsl) == IF vsl = "vsl-1" THEN "provider-1" ELSE "provider-2"

\* the provider whose volume snapshotter holds the snapshot
SnapshotterOf(snapshot) == IF snapshot = "snap-1" THEN "provider-1" ELSE "provider-2"

\* mutant: every snapshot is deleted through the first provider's plugin
ProviderOfFirst(snapshot) == "provider-1"

\* the provider plugin of the snapshot's VolumeSnapshotLocation
\* (pluginManager.GetVolumeSnapshotter's argument)
ProviderOf(snapshot) == VolumeSnapshotLocationProvider(SnapshotLocation(snapshot))

\* the snapshots of S a volume snapshotter deletes when it is asked to and
\* the calls in F fail: those it holds
SnapshotsDeleted(S, F) == {sn \in S \ F : SnapshotterOf(sn) = ProviderOf(sn)}

\* the volume snapshots the store lists for the backup are deleted at their
\* provider
DeleteSnapshots ==
    /\ pc = "snapshots"
    /\ \E ok \in Outcomes :
          LET list == Call("GetBackupVolumeSnapshots", "storage", cur.backupName, <<>>, ok)
              all == GetBackupVolumeSnapshots(cur.backupName)
              snaps == SeqOf(all)
          IN  IF ok
                 THEN \E F \in Failures(all) :
                        LET gone == SnapshotsDeleted(all, F)
                            left == SeqOf(all \ gone)
                        IN  /\ snapshotsTaken' = snapshotsTaken \ gone
                            /\ log' = log \o <<list>> \o
                                  [i \in DOMAIN snaps |->
                                      Call("DeleteSnapshot", "plugin", snaps[i],
                                           <<ProviderOf(snaps[i])>>, snaps[i] \in gone)]
                            /\ errs' = Accumulate(errs,
                                  [i \in DOMAIN left |->
                                      "error deleting snapshot " \o left[i]])
                            /\ nfail' = nfail + Cardinality(F)
                 ELSE /\ log' = Append(log, list)
                      /\ errs' = Accumulate(errs, <<"error getting backup's volume snapshots">>)
                      /\ nfail' = nfail + 1
                      /\ UNCHANGED snapshotsTaken
    /\ pc' = "restores"
    /\ UNCHANGED <<requests, cluster, storeRestores, storeBackups, env, queue,
                   cur, pluginHeld, ret>>

\* mutant: the restores are not filtered by the backup they were made from
RestoresOfNamespace(b) == restores

\* mutant: the loop over the restores stops after the first one
RestoresOfFirst(b) == {r \in restores : RestoreBackup(r) = b /\ r = "restore-1"}

\* the restores made from the backup
RestoresOf(b) == {r \in restores : RestoreBackup(r) = b}

\* mutant: a restore whose object could not be deleted keeps its metadata
RestoreStepsUntilFailure(r, FC, FS) ==
    IF r \in FC THEN <<Call("delete", "restores", r, <<>>, FALSE)>>
    ELSE <<Call("delete", "restores", r, <<>>, TRUE),
           Call("DeleteRestore", "storage", r, <<>>, r \notin FS)>>

\* the two steps taken for one restore: its object, then its metadata
RestoreSteps(r, FC, FS) ==
    <<Call("delete", "restores", r, <<>>, r \notin FC),
      Call("DeleteRestore", "storage", r, <<>>, r \notin FS)>>

RECURSIVE RestoreCalls(_, _, _)
RestoreCalls(rs, FC, FS) ==
    IF rs = <<>> THEN <<>>
    ELSE RestoreSteps(Head(rs), FC, FS) \o RestoreCalls(Tail(rs), FC, FS)

RECURSIVE RestoreErrors(_, _, _)
RestoreErrors(rs, FC, FS) ==
    IF rs = <<>> THEN <<>>
    ELSE (IF Head(rs) \in FC
             THEN <<"error deleting restore " \o Namespace \o "/" \o Head(rs)>> ELSE <<>>)
         \o (IF Head(rs) \in FS
             THEN <<"error deleting restore " \o Head(rs) \o " from backup storage">>
             ELSE <<>>)
         \o RestoreErrors(Tail(rs), FC, FS)

\* every restore of the backup is deleted from the cluster and from the store
DeleteRestores ==
    /\ pc = "restores"
    /\ LET mine == RestoresOf(cur.backupName)
       IN  \E FC \in Failures(mine) : \E FS \in SUBSET mine :
             /\ nfail + Cardinality(FC) + Cardinality(FS) <= MaxFailures
             /\ restores' = restores \ (mine \ FC)
             /\ storeRestores' = storeRestores \ (mine \ FS)
             /\ log' = log \o RestoreCalls(SeqOf(mine), FC, FS)
             /\ errs' = Accumulate(errs, RestoreErrors(SeqOf(mine), FC, FS))
             /\ nfail' = nfail + Cardinality(FC) + Cardinality(FS)
    /\ pc' = "backup"
    /\ UNCHANGED <<requests, backups, location, storeBackups, snapshotsTaken, env,
                   queue, cur, pluginHeld, ret>>

\* the backup is deleted from the cluster and from the store
DeleteBackup ==
    /\ pc = "backup"
    /\ \E okC \in Outcomes : \E okS \in BOOLEAN :
          /\ Failed(okC) + (IF okS THEN 0 ELSE 1) <= MaxFailures
          /\ backups' = IF okC THEN Without(backups, {cur.backupName}) ELSE backups
          /\ storeBackups' = IF okS THEN storeBackups \ {cur.backupName} ELSE storeBackups
          /\ log' = log \o <<Call("delete", "backups", cur.backupName, <<>>, okC),
                             Call("DeleteBackup", "storage", cur.backupName, <<>>, okS)>>
          /\ errs' = Accumulate(errs,
                   (IF okC THEN <<>>
                    ELSE <<"error deleting backup " \o Namespace \o "/" \o cur.backupName>>)
                \o (IF okS THEN <<>>
                    ELSE <<"error deleting backup " \o cur.backupName \o " from backup storage">>))
          /\ nfail' = Failed(okC) + (IF okS THEN 0 ELSE 1)
    /\ pc' = "finalize"
    /\ UNCHANGED <<requests, location, restores, storeRestores, snapshotsTaken, env,
                   queue, cur, pluginHeld, ret>>

\* the request becomes Processed with the errors of the run
Finalize ==
    /\ pc = "finalize"
    /\ requests' = SetStatus(cur.name, "Processed", errs)
    /\ log' = Append(log, PatchCall(<<"Processed">> \o errs, TRUE))
    /\ pc' = "cleanup"
    /\ UNCHANGED <<cluster, store, env, queue, cur, errs, pluginHeld, ret, nfail>>

\* pkgbackup.NewDeleteBackupRequestListOptions(name, uid): the requests
\* carrying both labels of the backup
DeleteBackupRequestListOptions(name, uid) ==
    {n \in DOMAIN requests :
        /\ requests[n].nameLabel = GetValidName(name)
        /\ requests[n].uidLabel = uid}

\* mutant: the requests are deleted only after a cascade without errors
DeleteCollectionIfNoErrors ==
    /\ pc = "cleanup"
    /\ requests' = IF errs = <<>>
          THEN Without(requests,
                  DeleteBackupRequestListOptions(cur.backupName, UIDOf(cur.backupName)))
          ELSE requests
    /\ log' = log \o (IF errs = <<>>
                         THEN <<Call("delete-collection", "deletebackuprequests", "",
                                 <<GetValidName(cur.backupName), UIDOf(cur.backupName)>>, TRUE)>>
                         ELSE <<>>)
                 \o <<Call("CleanupClients", "plugin", "", <<>>, TRUE)>>
    /\ pluginHeld' = FALSE
    /\ ret' = "nil"
    /\ pc' = "done"
    /\ UNCHANGED <<cluster, store, env, queue, cur, errs, nfail>>

\* mutant: the plugin manager's clients are cleaned up after a run without
\* errors only
CleanupClientsDeferredUnlessErrors(es) == es = <<>>

\* defer pluginManager.CleanupClients(): the call is made when processRequest
\* returns, whatever the errors of the run
CleanupClientsDeferred(es) == TRUE

\* the backup is gone: all its DeleteBackupRequests are deleted, the plugin
\* manager's clients are cleaned up and processRequest returns nil
DeleteCollection ==
    /\ pc = "cleanup"
    /\ requests' = Without(requests,
            DeleteBackupRequestListOptions(cur.backupName, UIDOf(cur.backupName)))
    /\ log' = log \o <<Call("delete-collection", "deletebackuprequests",
                            "", <<GetValidName(cur.backupName), UIDOf(cur.backupName)>>, TRUE)>>
                 \o (IF CleanupClientsDeferred(errs)
                        THEN <<Call("CleanupClients", "plugin", "", <<>>, TRUE)>>
                        ELSE <<>>)
    /\ pluginHeld' = ~CleanupClientsDeferred(errs)
    /\ ret' = "nil"
    /\ pc' = "done"
    /\ UNCHANGED <<cluster, store, env, queue, cur, errs, nfail>>

\* ------------------------------------------------------------------ sweeper
\* mutant: a request is expired only after more than 24 hours
ExpiredStrictly(created) == created + MaxAge < now

\* a request's age has reached the retention: now - created >= 24h
Expired(created) == created + MaxAge <= now

\* mutant: a pass stops after the first request it finds to delete
SweepCandidatesFirst ==
    LET all == {n \in DOMAIN requests :
                   /\ requests[n].phase = "Processed"
                   /\ Expired(requests[n].created)}
    IN  IF all = {} THEN {} ELSE {CHOOSE n \in all : TRUE}

\* the requests a pass deletes: Processed and expired
SweepCandidates ==
    {n \in DOMAIN requests :
        /\ requests[n].phase = "Processed"
        /\ Expired(requests[n].created)}

\* mutant: a pass gives up at the first delete that fails
SweepAttemptsUntilFailure(candidates, F) ==
    LET bad == {i \in DOMAIN candidates : candidates[i] \in F}
    IN  IF bad = {} THEN candidates
        ELSE SubSeq(candidates, 1, CHOOSE i \in bad : \A j \in bad : i <= j)

\* the deletes a pass issues over its candidates, of which those of F fail:
\* one for every candidate, whatever the outcome of the deletes before it
SweepAttempts(candidates, F) == candidates

\* deleteExpiredRequests, one pass: every Processed request that is expired
\* is deleted; a delete that fails is logged and the pass goes on
DeleteExpiredRequests ==
    /\ \E F \in Failures(SweepCandidates) :
          LET candidates == SweepAttempts(SeqOf(SweepCandidates), F)
              attempted == {candidates[i] : i \in DOMAIN candidates}
          IN  /\ requests' = Without(requests, attempted \ F)
              /\ sweepLog' = [i \in DOMAIN candidates |->
                     Call("delete", "deletebackuprequests", candidates[i], <<>>,
                          candidates[i] \notin F)]
              /\ nfail' = nfail + Cardinality(F)
    /\ sweptAt' = <<now>>
    /\ UNCHANGED <<cluster, store, deleteItemActions, tracker, used, now, queue,
                   pc, cur, errs, pluginHeld, log, ret, outside>>

\* a second passes
Tick ==
    /\ now < Now0 + MaxTicks
    /\ now' = now + 1
    /\ UNCHANGED <<requests, cluster, store, deleteItemActions, tracker, used,
                   sweepLog, sweptAt, queue, pc, cur, errs, pluginHeld, log, ret, nfail,
                   outside>>

\* ----------------------------------------------------------- client factory
\* the Kubernetes API: a Secret of the factory's namespace is created, ...
CreateSecret(name, data) ==
    /\ name \notin DOMAIN secrets
    /\ secrets' = With(secrets, name, data)
    /\ UNCHANGED <<controller, tracker, guardState, labels,
                   httpsProxy, srcClusterHost, destClusterHost, config>>

\* ... updated, ...
UpdateSecret(name, data) ==
    /\ name \in DOMAIN secrets
    /\ secrets[name] # data
    /\ secrets' = With(secrets, name, data)
    /\ UNCHANGED <<controller, tracker, guardState, labels,
                   httpsProxy, srcClusterHost, destClusterHost, config>>

\* ... or deleted
DeleteSecret(name) ==
    /\ name \in DOMAIN secrets
    /\ secrets' = Without(secrets, {name})
    /\ UNCHANGED <<controller, tracker, guardState, labels,
                   httpsProxy, srcClusterHost, destClusterHost, config>>

\* serviceAcctCredsFromSecret, what it returns: the four values of the
\* Secret of that name among the namespace's Secrets, the zero value when
\* there is none
serviceAcctCredsFromSecret(secretName) ==
    IF secretName \in DOMAIN secrets THEN secrets[secretName] ELSE NoCreds

\* mutant: the proxy of the Secret read last replaces the factory's
HttpsProxyAfterReadOf(saCreds, proxy) ==
    IF saCreds.httpsProxy # "" THEN saCreds.httpsProxy ELSE proxy

\* serviceAcctCredsFromSecret, what it leaves in f.httpsProxy: the Secret's
\* proxy when the factory has none yet
HttpsProxyAfterRead(saCreds, proxy) ==
    IF proxy = "" /\ saCreds.httpsProxy # "" THEN saCreds.httpsProxy ELSE proxy

\* mutant: a shared Secret without host and kubeconfig counts as not found
RoleSecretReadWithoutEndpoint(creds) == creds.host = "" /\ creds.kubeconfig = ""

\* mutant: the role's Secret is read whatever the shared Secret holds
RoleSecretReadAlways(creds) == TRUE

\* the role's Secret is read when the shared Secret gave the zero value
RoleSecretRead(creds) == creds = NoCreds

\* mutant: the kubeconfig is used only when there is no host
UsesKubeConfigWithoutHost(creds) == creds.kubeconfig # "" /\ creds.host = ""

\* if creds.kubeconfig != "": restConfigWithKubeConfig, else restConfigWithSAToken
UsesKubeConfig(creds) == creds.kubeconfig # ""

\* mutant: the proxy of the Secret resolved by the call goes on the transport
restConfigWithSATokenOwnProxy(creds, proxy) ==
    [kind |-> "config", Host |-> creds.host, BearerToken |-> creds.saToken,
     Insecure |-> TRUE, kubeconfig |-> "",
     proxy |-> IF creds.httpsProxy # "" THEN creds.httpsProxy ELSE proxy]

\* restConfigWithSAToken: host and bearer token, certificate validation
\* off, and the factory's proxy, if it has one, on the transport
restConfigWithSAToken(creds, proxy) ==
    [kind |-> "config", Host |-> creds.host, BearerToken |-> creds.saToken,
     Insecure |-> TRUE, kubeconfig |-> "", proxy |-> proxy]

\* mutant: no proxy on the transport of a configuration built from a
\* kubeconfig
restConfigWithKubeConfigWithoutProxy(creds, proxy) ==
    IF creds.kubeconfig = BadKubeconfig
    THEN [kind |-> "error", Host |-> "", BearerToken |-> "", Insecure |-> FALSE,
          kubeconfig |-> "", proxy |-> ""]
    ELSE [kind |-> "config", Host |-> "", BearerToken |-> "", Insecure |-> FALSE,
          kubeconfig |-> creds.kubeconfig, proxy |-> ""]

\* restConfigWithKubeConfig: what clientcmd.RESTConfigFromKubeConfig makes
\* of the kubeconfig, or its error, and the factory's proxy, if it has
\* one, on the transport
restConfigWithKubeConfig(creds, proxy) ==
    IF creds.kubeconfig = BadKubeconfig
    THEN [kind |-> "error", Host |-> "", BearerToken |-> "", Insecure |-> FALSE,
          kubeconfig |-> "", proxy |-> ""]
    ELSE [kind |-> "config", Host |-> "", BearerToken |-> "", Insecure |-> FALSE,
          kubeconfig |-> creds.kubeconfig, proxy |-> proxy]

\* Config(f.kubeconfig, f.kubecontext, ...): the local cluster's configuration
LocalConfig ==
    [kind |-> "local", Host |-> "", BearerToken |-> "", Insecure |-> FALSE,
     kubeconfig |-> "", proxy |-> ""]

\* return nil, err
ConfigError ==
    [kind |-> "error", Host |-> "", BearerToken |-> "", Insecure |-> FALSE,
     kubeconfig |-> "", proxy |-> ""]

\* the body SourceClientConfig and DestinationClientConfig have in common,
\* for the role's Secret name: the Secrets read, the credentials kept, the
\* factory's proxy after the reads and the result. listed says how many
\* of the Secret lists succeed.
ClientConfigFor(roleSecretName, listed) ==
    LET shared == serviceAcctCredsFromSecret(remoteClusterSecretName)
        proxy1 == HttpsProxyAfterRead(shared, httpsProxy)
        second == RoleSecretRead(shared)
        own == serviceAcctCredsFromSecret(roleSecretName)
        creds == IF second THEN own ELSE shared
        proxy2 == IF second THEN HttpsProxyAfterRead(own, proxy1) ELSE proxy1
    IN  IF listed = 0
        THEN [reads |-> <<>>, creds |-> NoCreds, proxy |-> httpsProxy,
              result |-> ConfigError]
        ELSE IF second /\ listed = 1
        THEN [reads |-> <<remoteClusterSecretName>>, creds |-> NoCreds,
              proxy |-> proxy1, result |-> ConfigError]
        ELSE [reads |-> IF second THEN <<remoteClusterSecretName, roleSecretName>>
                                  ELSE <<remoteClusterSecretName>>,
              creds |-> creds,
              proxy |-> proxy2,
              result |-> IF creds = NoCreds THEN LocalConfig
                         ELSE IF UsesKubeConfig(creds)
                              THEN restConfigWithKubeConfig(creds, proxy2)
                              ELSE restConfigWithSAToken(creds, proxy2)]

\* the result with the role it was asked for and the Secrets read for it
Returned(role, r) ==
    [role |-> role, kind |-> r.result.kind, Host |-> r.result.Host,
     BearerToken |-> r.result.BearerToken, Insecure |-> r.result.Insecure,
     kubeconfig |-> r.result.kubeconfig, proxy |-> r.result.proxy, reads |-> r.reads]

\* mutant: a resolution that finds no credentials clears the recorded host
ClusterHostAfterAlways(creds, host) == creds.host

\* f.srcClusterHost = srcCreds.host, f.destClusterHost = destCreds.host: the
\* host of the credentials found; left as it is when none were found
ClusterHostAfter(creds, host) == IF creds # NoCreds THEN creds.host ELSE host

\* SourceClientConfig
SourceClientConfig ==
    /\ config = NoConfig
    /\ \E listed \in 0..2 :
          LET r == ClientConfigFor(srcClusterSecretName, listed)
          IN  /\ httpsProxy' = r.proxy
              /\ srcClusterHost' = ClusterHostAfter(r.creds, srcClusterHost)
              /\ config' = Returned("source", r)
    /\ UNCHANGED <<controller, tracker, guardState, labels,
                   secrets, destClusterHost>>

\* DestinationClientConfig
DestinationClientConfig ==
    /\ config = NoConfig
    /\ \E listed \in 0..2 :
          LET r == ClientConfigFor(destClusterSecretName, listed)
          IN  /\ httpsProxy' = r.proxy
              /\ destClusterHost' = ClusterHostAfter(r.creds, destClusterHost)
              /\ config' = Returned("destination", r)
    /\ UNCHANGED <<controller, tracker, guardState, labels,
                   secrets, srcClusterHost>>

\* SourceClient, DestinationClient and the like: the caller builds its
\* client from the configuration, or returns the error
NewForConfig ==
    /\ config # NoConfig
    /\ config' = NoConfig
    /\ UNCHANGED <<controller, tracker, guardState, labels,
                   secrets, httpsProxy, srcClusterHost, destClusterHost>>

\* ------------------------------------------------------------ backupTracker
\* mutant: the entry of a backup is its name, whatever the namespace
backupTrackerKeyOfName(ns, name) == <<Namespace, name>>

\* the entry of a backup: its namespace and its name
backupTrackerKey(ns, name) == <<ns, name>>

\* backupTracker.Add, the whole call
Add(ns, name) ==
    /\ tracker' = tracker \cup {backupTrackerKey(ns, name)}
    /\ lastCall' = [lastCall EXCEPT ![<<ns, name>>] = "Add"]
    /\ UNCHANGED <<controller, factoryState, labels, answer, guardCalls, guardLock, possible>>

\* backupTracker.Delete, the whole call
Delete(ns, name) ==
    /\ tracker' = tracker \ {backupTrackerKey(ns, name)}
    /\ lastCall' = [lastCall EXCEPT ![<<ns, name>>] = "Delete"]
    /\ UNCHANGED <<controller, factoryState, labels, answer, guardCalls, guardLock, possible>>

\* backupTracker.Contains, the whole call, and what the caller gets
ContainsCalled(ns, name) ==
    /\ answer' = [ns |-> ns, name |-> name, result |-> Contains(ns, name)]
    /\ UNCHANGED <<controller, factoryState, labels, tracker, lastCall, guardCalls, guardLock,
                   possible>>

\* the calls of concurrent callers, step by step. What a call does to a
\* set of entries, and what it returns:
Effect(call, value) ==
    IF call.op = "Add" THEN value \cup {<<call.ns, call.name>>}
    ELSE IF call.op = "Delete" THEN value \ {<<call.ns, call.name>>}
    ELSE value

Result(call, value) ==
    IF call.op = "Contains" THEN <<call.ns, call.name>> \in value ELSE TRUE

\* the orders of the calls so far, extended by every pending call they
\* have not placed yet
Placing(orders, calls) ==
    orders \cup UNION {
        {[value |-> Effect(calls[p], o.value),
          placed |-> o.placed \cup {<<p, Result(calls[p], o.value)>>}] :
             p \in {q \in GuardCallers :
                       /\ calls[q].at # "idle"
                       /\ \A r \in BOOLEAN : <<q, r>> \notin o.placed}} :
        o \in orders}

RECURSIVE Placed(_, _)
Placed(orders, calls) ==
    LET more == Placing(orders, calls)
    IN  IF more = orders THEN orders ELSE Placed(more, calls)

\* the orders that agree with caller p returning result
Agreeing(orders, p, result) ==
    {[value |-> o.value, placed |-> o.placed \ {<<p, result>>}] :
        o \in {x \in orders : <<p, result>> \in x.placed}}

\* a caller calls Add, Delete or Contains
Invoke(p, op, ns, name) ==
    /\ guardCalls[p].at = "idle"
    /\ op \in (IF p \in GuardWriters THEN {"Add", "Delete"} ELSE {"Contains"})
    /\ guardCalls' = [guardCalls EXCEPT ![p] =
          [op |-> op, ns |-> ns, name |-> name, at |-> "called", snapshot |-> {}]]
    /\ possible' = Placed(possible, guardCalls')
    /\ UNCHANGED <<controller, factoryState, labels, tracker, lastCall, answer, guardLock>>

\* mutant: no caller waits for the lock
LockFreeAlways(p) == TRUE

\* the lock is free for the caller: no one holds it, or only readers do
\* and the caller is a reader
LockFree(p) ==
    IF p \in GuardWriters THEN guardLock = {} ELSE guardLock \cap GuardWriters = {}

\* the call takes the lock
Lock(p) ==
    /\ guardCalls[p].at = "called"
    /\ LockFree(p)
    /\ guardLock' = guardLock \cup {p}
    /\ guardCalls' = [guardCalls EXCEPT ![p].at = "locked"]
    /\ UNCHANGED <<controller, factoryState, labels, tracker, lastCall, answer, possible>>

\* Add and Delete read the set they are about to change, ...
ReadSet(p) ==
    /\ p \in GuardWriters
    /\ guardCalls[p].at = "locked"
    /\ guardCalls' = [guardCalls EXCEPT ![p].at = "read", ![p].snapshot = tracker]
    /\ UNCHANGED <<controller, factoryState, labels, tracker, lastCall, answer, guardLock,
                   possible>>

\* ... write it back with the entry put in or taken out, give the lock
\* back and return
WriteSet(p) ==
    /\ guardCalls[p].at = "read"
    /\ tracker' = IF guardCalls[p].op = "Add"
                   THEN guardCalls[p].snapshot \cup
                           {backupTrackerKey(guardCalls[p].ns, guardCalls[p].name)}
                   ELSE guardCalls[p].snapshot \
                           {backupTrackerKey(guardCalls[p].ns, guardCalls[p].name)}
    /\ guardLock' = guardLock \ {p}
    /\ guardCalls' = [guardCalls EXCEPT ![p] = NoCall]
    /\ possible' = Agreeing(possible, p, TRUE)
    /\ UNCHANGED <<controller, factoryState, labels, lastCall, answer>>

\* Contains looks the entry up, gives the lock back and returns
Answer(p) ==
    /\ p \in GuardReaders
    /\ guardCalls[p].at = "locked"
    /\ guardLock' = guardLock \ {p}
    /\ guardCalls' = [guardCalls EXCEPT ![p] = NoCall]
    /\ possible' = Agreeing(possible, p, Contains(guardCalls[p].ns, guardCalls[p].name))
    /\ UNCHANGED <<controller, factoryState, labels, tracker, lastCall, answer>>

\* -------------------------------------------------------------- label values
\* the characters of the long backup name of the tests
LongNameChars ==
    <<"t", "h", "e", "-", "r", "e", "a", "l", "l", "y", "-", "l", "o", "n",
     "g", "-", "b", "a", "c", "k", "u", "p", "-", "n", "a", "m", "e", "-",
     "t", "h", "a", "t", "-", "i", "s", "-", "m", "u", "c", "h", "-", "m",
     "o", "r", "e", "-", "t", "h", "a", "n", "-", "6", "3", "-", "c", "h",
     "a", "r", "a", "c", "t", "e", "r", "s">>

\* the number of characters of its hash a long name's label ends with
HashLength == 6

\* backup names, character by character: foo, the long name of the tests
\* cut to 57 and to 63 characters, the long name itself, two names of its
\* length that differ from it in the last and in the last seven
\* characters, and another long name
LabelNames ==
    {<<"f", "o", "o">>,
     SubSeq(LongNameChars, 1, 57),
     SubSeq(LongNameChars, 1, 63),
     LongNameChars,
     SubSeq(LongNameChars, 1, 63) \o <<"z">>,
     SubSeq(LongNameChars, 1, 57) \o [i \in 1..7 |-> "z"],
     [i \in 1..70 |-> "a"]}

\* the string of a sequence of characters
RECURSIVE Join(_)
Join(chars) == IF chars = <<>> THEN "" ELSE Head(chars) \o Join(Tail(chars))

\* the first six hexadecimal digits of the SHA-256 of a name
Hash6(chars) ==
    CASE chars = LongNameChars -> <<"6", "c", "a", "4", "b", "c">>
      [] chars = SubSeq(LongNameChars, 1, 63) \o <<"z">> -> <<"2", "3", "7", "3", "a", "7">>
      [] chars = SubSeq(LongNameChars, 1, 57) \o [i \in 1..7 |-> "z"] -> <<"b", "e", "b", "f", "6", "4">>
      [] chars = [i \in 1..70 |-> "a"] -> <<"6", "b", "d", "5", "e", "5">>

\* mutant: a long name is cut to the length of a label value
GetValidNameCut(chars) ==
    IF Len(chars) <= DNS1035LabelMaxLength THEN chars
    ELSE SubSeq(chars, 1, DNS1035LabelMaxLength)

\* label.GetValidName, character by character: a name that fits a label
\* value is used as it is; of a longer one the label keeps as many
\* characters as leave room for the hash, and the hash follows
GetValidNameChars(chars) ==
    IF Len(chars) <= DNS1035LabelMaxLength THEN chars
    ELSE SubSeq(chars, 1, DNS1035LabelMaxLength - HashLength) \o Hash6(chars)

\* the backup-name label of a request for the backup is written
WriteLabel(chars) ==
    /\ labels' = With(labels, chars, GetValidNameChars(chars))
    /\ UNCHANGED <<controller, tracker, factoryState, guardState>>

\* the request is gone, and its label with it
DropLabel(chars) ==
    /\ chars \in DOMAIN labels
    /\ labels' = Without(labels, {chars})
    /\ UNCHANGED <<controller, tracker, factoryState, guardState>>

\* ------------------------------------------------------------------- Next
Next ==
    \/ \E b \in Creating : TrackerAdd(b)
    \/ \E b \in Creating : TrackerDelete(b)
    \/ \E n \in ReqNames : \E b \in BackupNames : CreateRequest(n, b)
    \/ \E key \in ReqNames : ProcessQueueItem(key)
    \/ Return
    \/ Validate
    \/ DeleteExistingDeletionRequests
    \/ CheckTracker
    \/ GetBackup
    \/ GetLocation
    \/ PatchInProgress
    \/ PatchUIDLabel
    \/ PatchDeleting
    \/ NewPluginManager
    \/ InvokeDeleteActions
    \/ DeleteSnapshots
    \/ DeleteRestores
    \/ DeleteBackup
    \/ Finalize
    \/ DeleteCollection

Spec == Init /\ [][Next]_vars

\* the worker and the sweeper side by side, over the requests of backup
\* foo and of the long-named backup, all of them a day old
ControllerInit ==
    /\ Init
    /\ DOMAIN backups = BackupNames
    /\ restores = RestoreNames
    /\ deleteItemActions = 1

ControllerNext == Next \/ DeleteExpiredRequests

ControllerSpec == ControllerInit /\ [][ControllerNext]_vars

\* the sweeper alone, over the requests of its test: each of them is there
\* or not, in any phase, created at the time the test gives it
SweepNames == {"name", "unexpired-1", "expired-1", "unexpired-2", "expired-2"}

CreatedOf(name) ==
    CASE name = "unexpired-1" -> Unexpired1
      [] name = "unexpired-2" -> Unexpired2
      [] name = "expired-2" -> Expired2
      [] OTHER -> Expired1

SweeperInit ==
    /\ \E S \in SUBSET SweepNames : \E ph \in [S -> Phases] :
          requests = [n \in S |->
                        [NewDeleteBackupRequest("foo", UIDOf("foo")) EXCEPT
                            !.phase = ph[n], !.created = CreatedOf(n)]]
    /\ backups = [b \in BackupNames |-> Backup(b)]
    /\ storeBackups = BackupNames
    /\ snapshotsTaken = UNION {GetBackupVolumeSnapshots(b) : b \in BackupNames}
    /\ location = "ReadWrite"
    /\ restores = RestoreNames
    /\ storeRestores = RestoreNames
    /\ deleteItemActions = 0
    /\ tracker = {}
    /\ queue = {}
    /\ pc = "idle"
    /\ cur = [name |-> "", backupName |-> ""]
    /\ errs = <<>>
    /\ pluginHeld = FALSE
    /\ log = <<>>
    /\ ret = "none"
    /\ nfail = 0
    /\ used = DOMAIN requests
    /\ now = Now0
    /\ sweepLog = <<>>
    /\ sweptAt = <<>>
    /\ OutsideInit

SweeperNext == DeleteExpiredRequests \/ Tick

SweeperSpec == SweeperInit /\ [][SweeperNext]_vars

\* no request, no backup and an idle worker
ControllerQuiet ==
    /\ interrupted = <<>>
    /\ requests = <<>>
    /\ backups = <<>>
    /\ storeBackups = {}
    /\ snapshotsTaken = {}
    /\ location = "absent"
    /\ restores = {}
    /\ storeRestores = {}
    /\ deleteItemActions = 0
    /\ queue = {}
    /\ pc = "idle"
    /\ cur = [name |-> "", backupName |-> ""]
    /\ errs = <<>>
    /\ pluginHeld = FALSE
    /\ log = <<>>
    /\ ret = "none"
    /\ nfail = 0
    /\ used = {}
    /\ now = Now0
    /\ sweepLog = <<>>
    /\ sweptAt = <<>>

\* the factory alone: made with or without the --httpsproxy flag, in a
\* namespace whose Secrets come and go
FactoryInit ==
    /\ ControllerQuiet
    /\ tracker = {}
    /\ GuardInit
    /\ labels = <<>>
    /\ secrets = <<>>
    /\ httpsProxy \in {"", FlagProxy}
    /\ srcClusterHost = ""
    /\ destClusterHost = ""
    /\ config = NoConfig

FactoryNext ==
    \/ \E name \in SecretNames : \E data \in SecretData : CreateSecret(name, data)
    \/ \E name \in SecretNames : \E data \in SecretData : UpdateSecret(name, data)
    \/ \E name \in SecretNames : DeleteSecret(name)
    \/ SourceClientConfig
    \/ DestinationClientConfig
    \/ NewForConfig

FactorySpec == FactoryInit /\ [][FactoryNext]_vars

\* the backupTracker alone, one call after the other, from NewBackupTracker
GuardSeqInit ==
    /\ ControllerQuiet
    /\ FactoryQuiet
    /\ tracker = {}
    /\ GuardInit
    /\ labels = <<>>

GuardSeqNext ==
    \/ \E ns \in GuardNamespaces : \E name \in GuardNames : Add(ns, name)
    \/ \E ns \in GuardNamespaces : \E name \in GuardNames : Delete(ns, name)
    \/ \E ns \in GuardNamespaces : \E name \in GuardNames : ContainsCalled(ns, name)

GuardSeqSpec == GuardSeqInit /\ [][GuardSeqNext]_vars

\* the backupTracker alone under concurrent callers
GuardNext ==
    \/ \E p \in GuardCallers : \E op \in {"Add", "Delete", "Contains"} :
          \E k \in KeysOf(p) : Invoke(p, op, k[1], k[2])
    \/ \E p \in GuardCallers : Lock(p)
    \/ \E p \in GuardCallers : ReadSet(p)
    \/ \E p \in GuardCallers : WriteSet(p)
    \/ \E p \in GuardCallers : Answer(p)

GuardSpec == GuardSeqInit /\ [][GuardNext]_vars

\* label.GetValidName alone, over the names of LabelNames
LabelInit ==
    /\ ControllerQuiet
    /\ FactoryQuiet
    /\ tracker = {}
    /\ GuardInit
    /\ labels = <<>>

LabelNext ==
    \/ \E chars \in LabelNames : WriteLabel(chars)
    \/ \E chars \in LabelNames : DropLabel(chars)

LabelSpec == LabelInit /\ [][LabelNext]_vars

TypeOK ==
    /\ DOMAIN requests \subseteq ReqNames
    /\ \A n \in DOMAIN requests : requests[n].phase \in Phases
    /\ DOMAIN backups \subseteq BackupNames
    /\ pc \in {"idle", "validate", "dedupe", "tracker", "getBackup", "getLocation",
               "inProgress", "uidLabel", "deleting", "plugins", "itemActions",
               "snapshots", "restores", "backup", "finalize", "cleanup", "done"}
    /\ ret \in {"none", "nil", "err"}
    /\ nfail <= MaxFailures
    /\ pc \notin {"idle", "done"} => cur.name \in DOMAIN requests

\* ------------------------------------------------------------ observations
\* the calls of the run
Calls == {log[i] : i \in DOMAIN log}

\* a processRequest run has returned
RunEnded == pc = "done" /\ log # <<>>

\* no collaborator call of the run failed
NoFailure == \A c \in Calls : c.verb \notin {"get", "contains"} => c.ok

\* what the run observed
GuardHit == \E c \in Calls : c.res = "tracker" /\ c.arg = <<"active">>
GuardMiss == \E c \in Calls : c.res = "tracker" /\ c.arg = <<>>
BackupFound == Call("get", "backups", cur.backupName, <<>>, TRUE) \in Calls
BackupNotFound == Call("get", "backups", cur.backupName, <<>>, FALSE) \in Calls
LocationIs(mode) ==
    \E c \in Calls : c.res = "backupstoragelocations" /\ c.arg = <<mode>>

PatchedDeleting == Call("patch", "backups", cur.backupName, <<"Deleting">>, TRUE) \in Calls
PatchedProcessed(errors) == PatchCall(<<"Processed">> \o errors, TRUE) \in Calls

\* calls that touch a Backup object
BackupCalls == {c \in Calls : c.res = "backups"}
\* calls that destroy something of a backup: a snapshot, a restore, the
\* backup or a record in the store
Destructive ==
    {c \in Calls : \/ c.verb = "delete" /\ c.res \in {"backups", "restores"}
                   \/ c.verb \in {"DeleteSnapshot", "DeleteRestore", "DeleteBackup", "Execute"}}
\* calls that delete any object at all
Deletions == Destructive \cup {c \in Calls : c.verb \in {"delete", "delete-collection"}}

RejectedWith(error) ==
    /\ cur.name \in DOMAIN requests
    /\ Req.phase = "Processed"
    /\ Req.errors = <<error>>
    /\ log[Len(log)] = PatchCall(<<"Processed", error>>, TRUE)
    /\ ret = "nil"

\* ------------------------------------------------------------------ claims
\* C1: a run for a backup that exists, is not in the tracker and lies in a
\* read-write location, in which no call fails, patches the backup to
\* Deleting, deletes every restore of the backup from the cluster and the
\* store, deletes the backup from the cluster and the store, patches the
\* request to Processed without errors, deletes the collection of requests
\* selected by the backup's name and uid labels, and returns nil.
C1_Pre == GuardMiss /\ BackupFound /\ LocationIs("ReadWrite") /\ NoFailure

C1_FullDelete ==
    /\ (pc = "cleanup" /\ C1_Pre) =>
          /\ Req.phase = "Processed"
          /\ Req.errors = <<>>
    /\ (RunEnded /\ C1_Pre) =>
          /\ ret = "nil"
          /\ PatchedDeleting
          /\ \A r \in RestoreNames : RestoreBackup(r) = cur.backupName =>
                /\ r \notin restores
                /\ Call("delete", "restores", r, <<>>, TRUE) \in Calls =>
                      /\ Call("DeleteRestore", "storage", r, <<>>, TRUE) \in Calls
                      /\ r \notin storeRestores
          /\ cur.backupName \notin DOMAIN backups
          /\ cur.backupName \notin storeBackups
          /\ Call("delete", "backups", cur.backupName, <<>>, TRUE) \in Calls
          /\ Call("DeleteBackup", "storage", cur.backupName, <<>>, TRUE) \in Calls
          /\ PatchedProcessed(<<>>)
          /\ Call("delete-collection", "deletebackuprequests", "",
                  <<GetValidName(cur.backupName), UIDOf(cur.backupName)>>, TRUE) \in Calls
          /\ cur.name \notin DOMAIN requests

\* a full delete of backup foo with its two restores has returned
C1_Witness ==
    /\ RunEnded /\ C1_Pre /\ ret = "nil"
    /\ cur.backupName = "foo"
    /\ Call("delete", "restores", "restore-1", <<>>, TRUE) \in Calls
    /\ Call("delete", "restores", "restore-2", <<>>, TRUE) \in Calls
    /\ "restore-3" \in restores

\* C2: a run that finds its backup in the tracker patches the request to
\* Processed with the one error "backup is still in progress", returns nil,
\* and makes no call on a Backup or a Restore, on the store or on a plugin.
C2_InProgressBackup ==
    (RunEnded /\ GuardHit) =>
        /\ RejectedWith("backup is still in progress")
        /\ \A c \in Calls : c.res \notin {"backups", "restores", "storage", "plugin",
                                          "backupstoragelocations"}

\* such a run has returned while the backup exists in the cluster
C2_Witness == RunEnded /\ GuardHit /\ cur.backupName \in DOMAIN backups

\* C3: a run whose backup lies in a read-only location patches the request
\* to Processed with the read-only error, returns nil, never patches the
\* backup and deletes no snapshot, restore, backup or record of the store.
C3_ReadOnlyLocation ==
    (RunEnded /\ LocationIs("ReadOnly")) =>
        /\ RejectedWith("cannot delete backup because backup storage location default is currently in read-only mode")
        /\ \A c \in BackupCalls : c.verb = "get"
        /\ Destructive = {}

C3_Witness == RunEnded /\ LocationIs("ReadOnly") /\ RestoresOf(cur.backupName) # {}

\* C4: a run for a request without backup name makes exactly one call, the
\* patch of the request to Processed with the one error
\* "spec.backupName is required", and returns nil.
C4_MissingBackupName ==
    (RunEnded /\ cur.backupName = "") =>
        /\ RejectedWith("spec.backupName is required")
        /\ log = <<PatchCall(<<"Processed", "spec.backupName is required">>, TRUE)>>

\* such a run has returned while an older request is there to be deleted
C4_Witness == RunEnded /\ cur.backupName = "" /\ "bar" \in DOMAIN requests

\* C5, as stated: a run whose backup does not exist patches the request to
\* Processed with the one error "backup not found", returns nil and
\* deletes nothing.
C5_AsStated ==
    (RunEnded /\ BackupNotFound) =>
        /\ RejectedWith("backup not found")
        /\ Deletions = {}

\* the deletions of a run that are deletions of other requests for the
\* same backup, made before the tracker is asked
OnlyOlderRequestsDeleted ==
    \A i \in DOMAIN log : log[i] \in Deletions =>
        /\ log[i].verb = "delete"
        /\ log[i].res = "deletebackuprequests"
        /\ log[i].name # cur.name
        /\ \E j \in DOMAIN log : j > i /\ log[j].res = "tracker"

\* C5, amended: a run whose backup does not exist patches the request to
\* Processed with the one error "backup not found", returns nil and
\* deletes no backup, restore, snapshot or record of the store; all it
\* deletes are the other requests labelled for the same backup.
C5_BackupNotFound ==
    (RunEnded /\ BackupNotFound) =>
        /\ RejectedWith("backup not found")
        /\ Destructive = {}
        /\ OnlyOlderRequestsDeleted

\* such a run has returned after it deleted an older request
C5_Witness ==
    /\ RunEnded /\ BackupNotFound
    /\ Call("delete", "deletebackuprequests", "bar", <<>>, TRUE) \in Calls

\* C6, as stated: a run whose backup exists and whose storage location
\* does not patches the request to Processed with the one error "backup
\* storage location <name> not found", returns nil, never patches the
\* backup and deletes nothing.
C6_AsStated ==
    (RunEnded /\ BackupFound /\ LocationIs("absent")) =>
        /\ RejectedWith("backup storage location default not found")
        /\ \A c \in BackupCalls : c.verb = "get"
        /\ Deletions = {}

\* C6, amended: ... never patches the backup and deletes no backup,
\* restore, snapshot or record of the store; all it deletes are the other
\* requests labelled for the same backup.
C6_LocationNotFound ==
    (RunEnded /\ BackupFound /\ LocationIs("absent")) =>
        /\ RejectedWith("backup storage location default not found")
        /\ \A c \in BackupCalls : c.verb = "get"
        /\ Destructive = {}
        /\ OnlyOlderRequestsDeleted

C6_Witness ==
    /\ RunEnded /\ BackupFound /\ LocationIs("absent")
    /\ Call("delete", "deletebackuprequests", "bar", <<>>, TRUE) \in Calls
    /\ RestoresOf(cur.backupName) # {}

\* the patch of the request to InProgress failed in this run
InProgressFailed ==
    \E c \in Calls : /\ c.verb = "patch" /\ c.res = "deletebackuprequests"
                     /\ c.arg[1] = "InProgress" /\ ~c.ok

\* the worker has put the key of the failed run back on the queue
Requeued == (pc = "idle" /\ ret = "err") => cur.name \in queue

\* C7: a run whose patch of the request to InProgress fails returns the
\* error (the key is queued again), does not patch the request to
\* Processed, patches no backup and deletes no snapshot, restore, backup
\* or record of the store.
C7_InProgressPatchFails ==
    /\ (RunEnded /\ InProgressFailed) =>
          /\ ret = "err"
          /\ log[Len(log)].arg[1] = "InProgress"
          /\ \A c \in Calls : ~(c.verb = "patch" /\ c.arg[1] = "Processed")
          /\ Req.phase # "Processed"
          /\ \A c \in BackupCalls : c.verb = "get"
          /\ Destructive = {}
    /\ Requeued

C7_Witness == RunEnded /\ InProgressFailed /\ RestoresOf(cur.backupName) # {}

\* the patch of the backup to Deleting failed in this run
DeletingFailed == Call("patch", "backups", cur.backupName, <<"Deleting">>, FALSE) \in Calls

\* C8: a run whose patch of the backup to Deleting fails returns the error,
\* deletes no snapshot, restore, backup or record of the store and leaves
\* the request InProgress, so that the key, queued again, is processed
\* again.
C8_DeletingPatchFails ==
    /\ (RunEnded /\ DeletingFailed) =>
          /\ ret = "err"
          /\ log[Len(log)] = Call("patch", "backups", cur.backupName, <<"Deleting">>, FALSE)
          /\ Destructive = {}
          /\ Req.phase = "InProgress"
    /\ (pc = "idle" /\ ret = "err" /\ DeletingFailed) =>
          /\ cur.name \in queue
          /\ Req.phase = "InProgress"

C8_Witness == RunEnded /\ DeletingFailed /\ RestoresOf(cur.backupName) # {}

\* the calls of the cascade that failed, the download of the tarball among
\* them or not
CascadeFailures(withDownload) ==
    {i \in DOMAIN log :
        /\ ~log[i].ok
        /\ log[i].verb \in {"GetBackupVolumeSnapshots", "DeleteSnapshot", "DeleteRestore",
                            "DeleteBackup", "delete"}
                           \cup (IF withDownload THEN {"GetBackupContents"} ELSE {})}

\* the cascade went on to its end whatever failed: the backup's deletion
\* from the cluster and from the store were attempted, the request was
\* patched to Processed with the errors of the run and nil was returned
CascadeCompleted ==
    /\ \E c \in Calls : c.verb = "GetBackupVolumeSnapshots"
    /\ \E c \in Calls : c.verb = "delete" /\ c.res = "backups"
    /\ \E c \in Calls : c.verb = "DeleteBackup"
    /\ PatchedProcessed(errs)
    /\ ret = "nil"

\* C9, as stated: once the backup is patched to Deleting, every failure of
\* a cascade step, the download of the tarball included, is in the
\* request's error list, and the cascade goes on to its end.
C9_AsStated ==
    /\ (RunEnded /\ PatchedDeleting) =>
          /\ CascadeCompleted
          /\ Len(errs) = Cardinality(CascadeFailures(TRUE))
    /\ (pc = "cleanup" /\ PatchedDeleting) =>
          /\ Req.phase = "Processed"
          /\ Req.errors = errs

\* C9, amended: once the backup is patched to Deleting, every failure of a
\* cascade step other than the download of the tarball (listing or
\* deleting the snapshots, deleting a restore, deleting the backup from
\* the cluster or from the store) is in the request's error list, a failed
\* download is not, and no failure stops the later steps: the deletion of
\* the backup from the cluster and from the store are attempted, the
\* request becomes Processed and nil is returned.
C9_CascadeFailures ==
    /\ (RunEnded /\ PatchedDeleting) =>
          /\ CascadeCompleted
          /\ Len(errs) = Cardinality(CascadeFailures(FALSE))
    /\ (pc = "cleanup" /\ PatchedDeleting) =>
          /\ Req.phase = "Processed"
          /\ Req.errors = errs
          /\ Len(errs) = Cardinality(CascadeFailures(FALSE))

\* a run has returned in which a snapshot and a restore could not be
\* deleted and the backup was deleted all the same
C9_Witness ==
    /\ RunEnded /\ PatchedDeleting
    /\ \E c \in Calls : c.verb = "DeleteSnapshot" /\ ~c.ok
    /\ \E c \in Calls : c.verb = "delete" /\ c.res = "restores" /\ ~c.ok
    /\ Call("delete", "backups", cur.backupName, <<>>, TRUE) \in Calls
    /\ Len(errs) = 2

\* the run reached the deletion of the backup
ReachedBackupDeletion == \E c \in Calls : c.verb = "delete" /\ c.res = "backups"

\* C10: every run that reaches the deletion of the backup deletes the
\* collection of the requests carrying the backup's name and uid labels,
\* the processed request among them, whether the cascade had errors or not.
C10_SelfCleanup ==
    [][/\ (pc = "cleanup" /\ pc' = "done") =>
              /\ \A n \in DOMAIN requests' :
                    ~(/\ requests'[n].nameLabel = GetValidName(cur.backupName)
                      /\ requests'[n].uidLabel = UIDOf(cur.backupName))
              /\ cur.name \notin DOMAIN requests'
              /\ log'[Len(log') - 1] =
                    Call("delete-collection", "deletebackuprequests", "",
                         <<GetValidName(cur.backupName), UIDOf(cur.backupName)>>, TRUE)
       /\ (pc' = "done" /\ pc # "done" /\ ReachedBackupDeletion') => pc = "cleanup"
      ]_vars

\* a run with errors has returned whose cleanup deleted another request of
\* the backup with it
C10_Witness ==
    /\ RunEnded /\ ReachedBackupDeletion /\ errs # <<>>
    /\ cur.backupName = LongName
    /\ "bar-2" \notin DOMAIN requests

\* the calls of a run that delete a restore, in the cluster or in the store
RestoreDeletions ==
    {c \in Calls : \/ c.verb = "delete" /\ c.res = "restores"
                   \/ c.verb = "DeleteRestore"}

\* the restores made from another backup than the one the run deletes
OtherRestores(b) == {r \in RestoreNames : RestoreBackup(r) # b}

\* C11: while the worker cleans up backup B, a restore made from another
\* backup stays in the cluster and in the store, and no deletion of it is
\* issued to the cluster or to the store, whatever restores there are.
C11_OtherRestoresKept ==
    [][/\ \A r \in OtherRestores(cur'.backupName) :
              /\ r \in restores => r \in restores'
              /\ r \in storeRestores => r \in storeRestores'
       /\ \A c \in RestoreDeletions' : c.name \notin OtherRestores(cur'.backupName)
      ]_vars

\* the cleanup of foo has deleted foo's two restores and the restore of the
\* other backup is still in the cluster and in the store
C11_Witness ==
    /\ pc = "backup"
    /\ cur.backupName = "foo"
    /\ Call("delete", "restores", "restore-1", <<>>, TRUE) \in Calls
    /\ Call("DeleteRestore", "storage", "restore-2", <<>>, TRUE) \in Calls
    /\ "restore-3" \in restores
    /\ "restore-3" \in storeRestores

\* the download of the backup's tarball failed in this run
DownloadFailed == Call("GetBackupContents", "storage", cur.backupName, <<>>, FALSE) \in Calls

\* no call of the run failed but the download of the tarball
OnlyDownloadFailed ==
    \A c \in Calls : (c.verb \notin {"get", "contains", "GetBackupContents"}) => c.ok

\* the cascade of a run in which nothing went wrong that could stop a
\* deletion: the snapshots of the backup are gone from their provider, the
\* backup is gone from the cluster and from the store, the request was
\* patched to Processed without errors, the requests of the backup were
\* deleted as a collection and nil was returned
CascadeSucceeded ==
    /\ GetBackupVolumeSnapshots(cur.backupName) \cap snapshotsTaken = {}
    /\ \A sn \in GetBackupVolumeSnapshots(cur.backupName) :
          Call("DeleteSnapshot", "plugin", sn, <<ProviderOf(sn)>>, TRUE) \in Calls
    /\ cur.backupName \notin DOMAIN backups
    /\ cur.backupName \notin storeBackups
    /\ Call("delete", "backups", cur.backupName, <<>>, TRUE) \in Calls
    /\ Call("DeleteBackup", "storage", cur.backupName, <<>>, TRUE) \in Calls
    /\ PatchedProcessed(<<>>)
    /\ Call("delete-collection", "deletebackuprequests", "",
            <<GetValidName(cur.backupName), UIDOf(cur.backupName)>>, TRUE) \in Calls
    /\ cur.name \notin DOMAIN requests
    /\ ret = "nil"

\* C12: with a DeleteItemAction plugin registered, a run whose download of
\* the backup's tarball fails does not invoke the item actions and goes on:
\* it deletes the snapshots, deletes the backup from the cluster and from
\* the store, patches the request to Processed (without errors when nothing
\* else failed), deletes the requests of the backup and returns nil.
C12_TarballDownloadFails ==
    (RunEnded /\ DownloadFailed) =>
        /\ deleteItemActions > 0
        /\ \A c \in Calls : c.verb # "Execute"
        /\ CascadeCompleted
        /\ Call("CleanupClients", "plugin", "", <<>>, TRUE) \in Calls
        /\ OnlyDownloadFailed => CascadeSucceeded

\* such a run for backup foo has returned, nothing else having failed
C12_Witness ==
    /\ RunEnded /\ DownloadFailed /\ OnlyDownloadFailed
    /\ cur.backupName = "foo"
    /\ "snap-1" \notin snapshotsTaken

\* C13: with no DeleteItemAction plugin registered, a run never downloads
\* the backup's tarball and invokes no item action, and the rest of the
\* cascade runs as in a full delete: in a run without failures the
\* snapshots and the backup are deleted, the request becomes Processed
\* without errors, the requests of the backup are deleted and nil is
\* returned.
C13_NoDeleteItemActions ==
    (RunEnded /\ deleteItemActions = 0) =>
        /\ \A c \in Calls : c.verb \notin {"GetBackupContents", "Execute"}
        /\ PatchedDeleting => CascadeCompleted
        /\ (PatchedDeleting /\ NoFailure) => CascadeSucceeded

\* a full delete without plugins has returned
C13_Witness ==
    /\ RunEnded /\ deleteItemActions = 0 /\ PatchedDeleting /\ NoFailure
    /\ Call("GetDeleteItemActions", "plugin", "", <<>>, TRUE) \in Calls
    /\ cur.backupName = "foo"
    /\ "snap-1" \notin snapshotsTaken

\* the store listed the backup's volume snapshots in this run
SnapshotsListed ==
    Call("GetBackupVolumeSnapshots", "storage", cur.backupName, <<>>, TRUE) \in Calls

\* C14: in a run that reaches the cascade and gets the list of the backup's
\* volume snapshots from the store, every listed snapshot is deleted by id
\* through the plugin of the provider its VolumeSnapshotLocation names, and
\* a snapshot whose deletion did not fail is gone from its provider; after
\* a run without failures none of the backup's snapshots is left.
C14_SnapshotsDeleted ==
    /\ (RunEnded /\ SnapshotsListed) =>
          \A sn \in GetBackupVolumeSnapshots(cur.backupName) :
              \E c \in Calls :
                  /\ c.verb = "DeleteSnapshot"
                  /\ c.name = sn
                  /\ c.arg = <<VolumeSnapshotLocationProvider(SnapshotLocation(sn))>>
                  /\ c.ok => sn \notin snapshotsTaken
    /\ (RunEnded /\ PatchedDeleting /\ NoFailure) =>
          /\ SnapshotsListed
          /\ GetBackupVolumeSnapshots(cur.backupName) \cap snapshotsTaken = {}

\* a full delete of the long-named backup has returned: its snapshot was
\* deleted through the second provider's plugin, the snapshot of backup foo
\* is still at the first provider
C14_Witness ==
    /\ RunEnded /\ PatchedDeleting /\ NoFailure
    /\ cur.backupName = LongName
    /\ Call("DeleteSnapshot", "plugin", "snap-2", <<"provider-2">>, TRUE) \in Calls
    /\ "snap-2" \notin snapshotsTaken
    /\ "snap-1" \in snapshotsTaken

\* C15 (its steps are the worker's, those that move pc): a run for a
\* request with a backup name deletes, before it asks the
\* tracker, every other request whose backup-name label is the label of the
\* request's backup, and nothing else: the request itself and the requests
\* labelled for another backup stay as they are; when the tracker then
\* holds the backup, the request becomes Processed with the error
\* "backup is still in progress" and nil is returned.
C15_ExistingRequestsDeleted ==
    [][/\ (pc = "validate" /\ pc' # pc /\ cur.backupName # "") =>
              /\ pc' = "dedupe"
              /\ requests' = requests
       /\ (pc = "dedupe" /\ pc' # pc) =>
              /\ pc' = "tracker"
              /\ DOMAIN requests' = DOMAIN requests \
                    {n \in DOMAIN requests :
                        /\ n # cur.name
                        /\ requests[n].nameLabel = GetValidName(cur.backupName)}
              /\ \A n \in DOMAIN requests' : requests'[n] = requests[n]
              /\ cur.name \in DOMAIN requests'
              /\ \A n \in DOMAIN requests \ DOMAIN requests' :
                    Call("delete", "deletebackuprequests", n, <<>>, TRUE) \in Calls'
              /\ \A c \in Calls' : /\ c.res # "tracker"
                                   /\ c.verb = "delete" => c.name \notin DOMAIN requests'
       /\ (pc' = "tracker" /\ pc' # pc) => pc = "dedupe"
       /\ (pc = "tracker" /\ pc' # pc /\ <<Namespace, cur.backupName>> \in tracker) =>
              /\ requests' = SetStatus(cur.name, "Processed", <<"backup is still in progress">>)
              /\ pc' = "done"
              /\ ret' = "nil"
      ]_vars

\* a run for backup foo, which is in the tracker, has returned: it deleted
\* the older request bar, the request for the other backup is still there
\* and the request is Processed
C15_Witness ==
    /\ RunEnded /\ GuardHit
    /\ cur.name = "foo-abcde"
    /\ log[1] = Call("delete", "deletebackuprequests", "bar", <<>>, TRUE)
    /\ "bar" \notin DOMAIN requests
    /\ "bar-2" \in DOMAIN requests
    /\ requests["bar-2"].nameLabel # GetValidName(cur.backupName)
    /\ RejectedWith("backup is still in progress")

\* the place of a phase on the way unset/New -> InProgress -> Processed
PhaseRank(phase) ==
    CASE phase \in {"", "New"} -> 0
      [] phase = "InProgress" -> 1
      [] phase = "Processed" -> 2

\* C16: no step of any execution moves the phase of a request backward on
\* the way unset/New -> InProgress -> Processed: a Processed request never
\* becomes InProgress or New again, an InProgress one never New or unset.
C16_PhaseForward ==
    [][\A n \in DOMAIN requests \cap DOMAIN requests' :
           PhaseRank(requests'[n].phase) >= PhaseRank(requests[n].phase)
      ]_vars

\* the key of a request left InProgress by a failed run was delivered
\* again, and the run is about to patch the request to InProgress
C16_Witness ==
    /\ pc = "inProgress"
    /\ Req.phase = "InProgress"
    /\ nfail > 0

\* C18 (its steps are the worker's, those that move pc): processQueueItem
\* hands the key's request to processRequest exactly when the request is
\* in the cache and its phase is unset, New or InProgress; for a request
\* that is gone or Processed it does nothing and returns nil; what
\* processRequest returned is what processQueueItem returns.
C18_ProcessQueueItem ==
    [][/\ (pc = "idle" /\ pc' # pc) =>
              IF /\ cur'.name \in DOMAIN requests
                 /\ requests[cur'.name].phase \in {"", "New", "InProgress"}
                 THEN /\ pc' = "validate"
                      /\ cur'.backupName = requests[cur'.name].backupName
                      /\ requests' = requests
                 ELSE /\ pc' = "done"
                      /\ ret' = "nil"
                      /\ log' = <<>>
                      /\ UNCHANGED <<requests, cluster, store>>
       /\ (pc' = "validate" /\ pc' # pc) => pc = "idle"
       /\ (pc = "done" /\ pc' # pc) =>
              /\ pc' = "idle"
              /\ ret' = ret
              /\ UNCHANGED <<requests, cluster, store>>
      ]_vars

\* the key of a request left InProgress by a failed run was delivered
\* again and its request handed to processRequest, while the key of a
\* Processed request and the key of a deleted request were dropped
C18_Witness ==
    /\ pc = "validate"
    /\ Req.phase = "InProgress"
    /\ "bar" \notin DOMAIN requests \cup queue
    /\ "bar" \in used
    /\ "bar-2" \in DOMAIN requests
    /\ "bar-2" \notin queue

\* the failures of the cascade a step that makes a request Processed has
\* to have in the request's error list, the failed download of the tarball
\* among them or not
ErrorsComplete(withDownload) ==
    \A n \in DOMAIN requests \cap DOMAIN requests' :
        (requests[n].phase # "Processed" /\ requests'[n].phase = "Processed") =>
            /\ n = cur.name
            /\ IF pc = "finalize"
                  THEN /\ requests'[n].errors = errs
                       /\ Len(errs) = Cardinality(CascadeFailures(withDownload)')
                  ELSE /\ Len(requests'[n].errors) = 1
                       /\ Cardinality(CascadeFailures(withDownload)') = 0

\* no step changes the error list of a Processed request
ErrorsImmutable ==
    \A n \in DOMAIN requests \cap DOMAIN requests' :
        requests[n].phase = "Processed" =>
            /\ requests'[n].errors = requests[n].errors
            /\ requests'[n].phase = "Processed"

\* C17, as stated: once a request is Processed no step of the worker (its
\* key delivered again, another request of the backup processed) or of
\* the sweeper changes its error list, and the list holds every failure of
\* the run that made it Processed, the download of the tarball included.
C17_AsStated == [][ErrorsImmutable /\ ErrorsComplete(TRUE)]_vars

\* C17, amended: once a request is Processed no step of the worker or of
\* the sweeper changes its error list, and the list holds every failure of
\* the cascade of the run that made it Processed but a failed download of
\* the tarball, which is only logged.
C17_ProcessedImmutable == [][ErrorsImmutable /\ ErrorsComplete(FALSE)]_vars

\* a run whose download of the tarball failed has made its request
\* Processed without errors, while the Processed request of the other
\* backup has outlived a pass of the sweeper that failed to delete it
C17_Witness ==
    /\ pc = "cleanup"
    /\ DownloadFailed
    /\ cur.name \in DOMAIN requests
    /\ Req.phase = "Processed"
    /\ Req.errors = <<>>
    /\ sweepLog = <<Call("delete", "deletebackuprequests", "bar-2", <<>>, FALSE)>>
    /\ requests["bar-2"].errors = <<"backup not found">>

\* the names of the requests the sweeper's last pass issued a delete for
SweepDeletions == {sweepLog[i].name : i \in DOMAIN sweepLog}

\* C19: a pass of the sweeper issues a delete for exactly the requests
\* that are Processed and were created 24 hours ago or earlier, once each:
\* a Processed request created exactly 24 hours ago is deleted, one
\* created a second later is kept, and a request that is not Processed is
\* kept whatever its age.
C19_ExpiredRequestsDeleted ==
    [][now' = now =>
         LET due == {n \in DOMAIN requests :
                        /\ requests[n].phase = "Processed"
                        /\ requests[n].created + MaxAge <= now}
         IN  /\ SweepDeletions' = due
             /\ Len(sweepLog') = Cardinality(due)
             /\ \A i \in DOMAIN sweepLog' :
                   /\ sweepLog'[i].verb = "delete"
                   /\ sweepLog'[i].res = "deletebackuprequests"
                   /\ sweepLog'[i].ok <=> sweepLog'[i].name \notin DOMAIN requests'
             /\ DOMAIN requests' \subseteq DOMAIN requests
             /\ \A n \in DOMAIN requests :
                   /\ (requests[n].phase = "Processed" /\ requests[n].created + MaxAge = now)
                         => n \in SweepDeletions'
                   /\ (requests[n].phase = "Processed" /\ requests[n].created + MaxAge = now + 1)
                         => (n \notin SweepDeletions' /\ n \in DOMAIN requests')
                   /\ requests[n].phase # "Processed"
                         => (n \notin SweepDeletions' /\ n \in DOMAIN requests')
      ]_vars

\* the pass of the test has run: the request created exactly 24 hours ago
\* is deleted, the one created a second later is kept, and so are older
\* requests that are not Processed
C19_Witness ==
    /\ now = Now0
    /\ sweptAt = <<Now0>>
    /\ Call("delete", "deletebackuprequests", "expired-1", <<>>, TRUE) \in
          {sweepLog[i] : i \in DOMAIN sweepLog}
    /\ "expired-1" \notin DOMAIN requests
    /\ {"unexpired-2", "expired-2", "name"} \subseteq DOMAIN requests
    /\ requests["unexpired-2"].phase = "Processed"
    /\ requests["expired-2"].phase = "InProgress"
    /\ requests["name"].phase = ""

\* C20: a pass that follows, at the same clock, a pass all of whose
\* deletes succeeded issues no delete and leaves the requests as they
\* are; so does a pass over an empty collection.
C20_SweepIdempotent ==
    [][now' = now =>
         /\ (sweptAt = <<now>> /\ \A i \in DOMAIN sweepLog : sweepLog[i].ok) =>
                /\ sweepLog' = <<>>
                /\ requests' = requests
         /\ DOMAIN requests = {} =>
                /\ sweepLog' = <<>>
                /\ requests' = requests
      ]_vars

\* a second pass at the same clock has run and deleted nothing, after a
\* pass that deleted the two expired requests
C20_Witness ==
    /\ now = Now0
    /\ nfail = 0
    /\ sweptAt = <<Now0>>
    /\ sweepLog = <<>>
    /\ used \ DOMAIN requests = {"expired-1", "expired-2"}

\* C21: in one pass of the sweeper a delete that fails stops nothing: every
\* other request that is Processed and expired still has its delete issued
\* in the same pass, and is gone when that delete succeeds.
C21_FailureDoesNotStopPass ==
    [][(now' = now /\ \E i \in DOMAIN sweepLog' : ~sweepLog'[i].ok) =>
         \A n \in DOMAIN requests :
            (requests[n].phase = "Processed" /\ requests[n].created + MaxAge <= now) =>
               \E j \in DOMAIN sweepLog' :
                  /\ sweepLog'[j].name = n
                  /\ sweepLog'[j].verb = "delete"
                  /\ sweepLog'[j].ok => n \notin DOMAIN requests'
      ]_vars

\* a pass whose first delete failed went on to delete the other expired
\* request
C21_Witness ==
    /\ Len(sweepLog) = 2
    /\ ~sweepLog[1].ok
    /\ sweepLog[2].ok
    /\ sweepLog[1].name \in DOMAIN requests
    /\ sweepLog[2].name \notin DOMAIN requests
    /\ {sweepLog[1].name, sweepLog[2].name} = {"expired-1", "expired-2"}

\* the run has acquired a plugin manager
PluginManagerAcquired == \E i \in DOMAIN log : log[i].verb = "GetDeleteItemActions"

\* the calls of CleanupClients of the run
CleanupCalls == {i \in DOMAIN log : log[i].verb = "CleanupClients"}

Resolved == config = NoConfig /\ config' # NoConfig

\* the name of the Secret of a role
RoleSecretName(role) ==
    IF role = "source" THEN srcClusterSecretName ELSE destClusterSecretName

\* what the namespace holds under a Secret name, the zero value when it
\* holds nothing
Held(name) == IF name \in DOMAIN secrets THEN secrets[name] ELSE NoCreds

\* the call listed the Secrets as often as it had to: no list failed
Complete(c) ==
    \/ Held(remoteClusterSecretName) # NoCreds /\ c.reads = <<remoteClusterSecretName>>
    \/ /\ Held(remoteClusterSecretName) = NoCreds
       /\ c.reads = <<remoteClusterSecretName, RoleSecretName(c.role)>>

\* the configuration carries the credentials creds and no others
Uses(c, creds) ==
    \/ c.kind = "error" /\ creds.kubeconfig = BadKubeconfig
    \/ /\ c.kind = "config"
       /\ \/ c.kubeconfig = creds.kubeconfig /\ c.kubeconfig # ""
          \/ /\ c.kubeconfig = ""
             /\ c.Host = creds.host
             /\ c.BearerToken = creds.saToken

\* C23 as stated: the role's Secret is used whenever it exists and the
\* shared Secret is absent or empty, so the local configuration is returned
\* only when the role's Secret does not exist.
C23_AsStated ==
    [][(Resolved /\ Complete(config')) =>
          LET c == config'
              shared == Held(remoteClusterSecretName)
          IN  (c.kind = "local") <=>
                 (shared = NoCreds /\ RoleSecretName(c.role) \notin DOMAIN secrets)
      ]_vars

\* C23: for either role, a call whose lists succeed builds the
\* configuration from the shared Secret remotecluster when that exists with
\* a value in it, and then does not read the role's Secret, so that both
\* roles get the same credentials; otherwise from the role's Secret
\* (srccluster, destcluster) when that exists with a value in it; otherwise
\* it returns the local configuration. A Secret that exists with no value
\* in it counts as absent.
C23_Priority ==
    [][Resolved =>
          LET c == config'
              shared == Held(remoteClusterSecretName)
              own == Held(RoleSecretName(c.role))
          IN  /\ c.role \in {"source", "destination"}
              /\ shared # NoCreds => RoleSecretName(c.role) \notin
                                        {c.reads[i] : i \in DOMAIN c.reads}
              /\ c.kind \in {"config", "local"} => Complete(c)
              /\ Complete(c) =>
                    /\ shared # NoCreds => Uses(c, shared)
                    /\ (shared = NoCreds /\ own # NoCreds) => Uses(c, own)
                    /\ (shared = NoCreds /\ own = NoCreds) => c.kind = "local"
      ]_vars

\* the destination's configuration has been built from the shared Secret
\* while destcluster holds other credentials, and destcluster was not read
C23_Witness ==
    /\ config.role = "destination"
    /\ config.kind = "config"
    /\ config.reads = <<remoteClusterSecretName>>
    /\ Held(remoteClusterSecretName).host = "https://b"
    /\ Held(destClusterSecretName).host = "https://a"
    /\ Held(destClusterSecretName).kubeconfig = ""
    /\ config.Host = "https://b"
    /\ config.BearerToken = "token-b"

\* the credentials the priority of the Secrets picks for the role of c
Selected(c) ==
    IF Held(remoteClusterSecretName) # NoCreds
    THEN Held(remoteClusterSecretName)
    ELSE Held(RoleSecretName(c.role))

\* C24: a call whose lists succeed and whose Secret carries a kubeconfig
\* builds the configuration from the kubeconfig alone, or returns the error
\* of loading it: host and token of the Secret are not in it and
\* certificate validation is not switched off. Only a Secret without
\* kubeconfig gives a configuration of its host and its bearer token, and
\* that one has certificate validation off (Insecure).
C24_Shape ==
    [][(Resolved /\ Complete(config') /\ Selected(config') # NoCreds) =>
          LET c == config'
              creds == Selected(c)
          IN  /\ creds.kubeconfig # "" =>
                    \/ c.kind = "error" /\ creds.kubeconfig = BadKubeconfig
                    \/ /\ c.kind = "config"
                       /\ creds.kubeconfig # BadKubeconfig
                       /\ c.kubeconfig = creds.kubeconfig
                       /\ c.Host = ""
                       /\ c.BearerToken = ""
                       /\ ~c.Insecure
              /\ creds.kubeconfig = "" =>
                    /\ c.kind = "config"
                    /\ c.kubeconfig = ""
                    /\ c.Host = creds.host
                    /\ c.BearerToken = creds.saToken
                    /\ c.Insecure
      ]_vars

\* the source's configuration has been built from the kubeconfig of a
\* Secret that carries a host and a token as well
C24_Witness ==
    /\ config.role = "source"
    /\ config.reads = <<remoteClusterSecretName, srcClusterSecretName>>
    /\ Held(srcClusterSecretName).kubeconfig = "kubeconfig-1"
    /\ Held(srcClusterSecretName).host = "https://a"
    /\ Held(srcClusterSecretName).saToken = "token-a"
    /\ Held(remoteClusterSecretName) = NoCreds
    /\ config.kind = "config"
    /\ config.kubeconfig = "kubeconfig-1"
    /\ config.Host = ""
    /\ ~config.Insecure

\* what the Secrets of the moment give the role of c, the proxy left aside:
\* kind, Host, BearerToken, Insecure and kubeconfig of the configuration
FromSecrets(c) ==
    LET creds == Selected(c)
    IN  IF creds = NoCreds THEN <<"local", "", "", FALSE, "">>
        ELSE IF creds.kubeconfig = BadKubeconfig THEN <<"error", "", "", FALSE, "">>
        ELSE IF creds.kubeconfig # "" THEN <<"config", "", "", FALSE, creds.kubeconfig>>
        ELSE <<"config", creds.host, creds.saToken, TRUE, "">>

C27_GuardContract ==
    [][/\ tracker' \subseteq GuardKeys
       /\ \A k \in GuardKeys : (k \in tracker') <=> (lastCall'[k] = "Add")
       /\ \A k \in GuardKeys :
             lastCall'[k] = lastCall[k] => ((k \in tracker') <=> (k \in tracker))
       /\ answer' # answer =>
             /\ tracker' = tracker
             /\ answer'.result <=> (lastCall[<<answer'.ns, answer'.name>>] = "Add")
      ]_vars

\* Contains has returned true for foo of one namespace, added last, while
\* foo of the other namespace, deleted last, is not contained
C27_Witness ==
    /\ answer = [ns |-> Namespace, name |-> "foo", result |-> TRUE]
    /\ lastCall[<<Namespace, "foo">>] = "Add"
    /\ lastCall[<<"ns", "foo">>] = "Delete"
    /\ <<Namespace, "foo">> \in tracker
    /\ <<"ns", "foo">> \notin tracker

\* C28: whatever the interleaving of the steps of concurrent Add, Delete
\* and Contains calls, there is an order of the calls, one at a time,
\* that agrees with their real-time order and gives every call that has
\* returned its result; and when no call is pending the set is one such
\* an order leaves.
C28_Linearizable ==
    /\ possible # {}
    /\ (\A p \in GuardCallers : guardCalls[p].at = "idle") =>
          tracker \in {o.value : o \in possible}

\* an Add holds the lock and has read the set while another Add and a
\* Contains wait, after an earlier call has put an entry in
C28_Witness ==
    /\ guardCalls["backup-1"].at = "read"
    /\ guardCalls["backup-1"].op = "Add"
    /\ guardCalls["backup-2"].at = "called"
    /\ guardCalls["backup-2"].op = "Delete"
    /\ guardCalls["worker-1"].at = "called"
    /\ guardCalls["worker-2"].at = "called"
    /\ tracker = {<<"ns", "foo">>}
    /\ Cardinality({o.value : o \in possible}) > 1

InProgressPatches ==
    {i \in DOMAIN log : /\ log[i].verb = "patch"
                         /\ log[i].res = "deletebackuprequests"
                         /\ log[i].arg[1] = "InProgress"}

BackupGets == {i \in DOMAIN log : log[i].verb = "get" /\ log[i].res = "backups"}

\* the run has recorded one of the three diagnostics about the backup and
\* its storage location
RejectedForBackup ==
    \/ RejectedWith("backup not found")
    \/ RejectedWith("backup storage location default not found")
    \/ RejectedWith("cannot delete backup because backup storage location default is currently in read-only mode")

\* C30 as stated: a run that records "backup not found", the storage
\* location not found or the read-only diagnostic has patched the request
\* to InProgress before, and no get of the backup precedes a failed patch
\* to InProgress.
C30_AsStated ==
    /\ (RunEnded /\ RejectedForBackup) =>
          \E i \in InProgressPatches : log[i].ok
    /\ \A i \in InProgressPatches :
          ~log[i].ok => \A j \in BackupGets : j > i

\* C30: processRequest gets the backup and its storage location before it
\* patches the request to InProgress. A run that records "backup not
\* found", the storage location not found or the read-only diagnostic has
\* issued no patch to InProgress: its only patch of the request is the one
\* to Processed. Every patch to InProgress, failed or not, comes after a
\* successful get of the backup, and a failed one is the last call of its
\* run.
C30_GetBeforeInProgress ==
    /\ (RunEnded /\ RejectedForBackup) =>
          /\ InProgressPatches = {}
          /\ BackupGets # {}
          /\ \A i \in DOMAIN log :
                (log[i].verb = "patch" /\ log[i].res = "deletebackuprequests")
                   => i = Len(log)
    /\ \A i \in InProgressPatches :
          /\ \E j \in BackupGets : j < i /\ log[j].ok
          /\ ~log[i].ok => i = Len(log)

\* a run has ended with "backup not found" without a patch to InProgress,
\* for a request that was New
C30_Witness ==
    /\ RunEnded
    /\ RejectedWith("backup not found")
    /\ BackupNotFound
    /\ InProgressPatches = {}
    /\ Len(log) >= 2

\* the positions in the run's calls of the destructive calls
DestructiveAt == {i \in DOMAIN log : log[i] \in Destructive}

\* C31: in every run each destructive call (item action, snapshot
\* deletion, deletion of a restore or of the backup, in the cluster or in
\* the store) comes after a successful patch of the backup to Deleting,
\* and every patch of the backup to Deleting, successful or not, comes
\* after a successful patch of the request to InProgress, a check of the
\* tracker that did not find the backup and a get of the storage location
\* that found it read-write.
C31_DeletingFirst ==
    /\ \A i \in DestructiveAt :
          \E j \in 1..(i - 1) :
             log[j] = Call("patch", "backups", cur.backupName, <<"Deleting">>, TRUE)
    /\ \A j \in DOMAIN log :
          (log[j].verb = "patch" /\ log[j].res = "backups") =>
             /\ \E k \in InProgressPatches : k < j /\ log[k].ok
             /\ \E k \in 1..(j - 1) :
                   /\ log[k].res = "tracker"
                   /\ log[k].arg = <<>>
                   /\ ~log[k].ok
             /\ \E k \in 1..(j - 1) :
                   /\ log[k].res = "backupstoragelocations"
                   /\ log[k].arg = <<"ReadWrite">>
                   /\ log[k].ok

\* a run has deleted a snapshot, a restore and the backup after patching
\* the backup to Deleting
C31_Witness ==
    /\ RunEnded
    /\ PatchedDeleting
    /\ \E i \in DestructiveAt : log[i].verb = "DeleteSnapshot" /\ log[i].ok
    /\ \E i \in DestructiveAt : log[i].verb = "delete" /\ log[i].res = "restores"
    /\ \E i \in DestructiveAt : log[i].verb = "delete" /\ log[i].res = "backups"
    /\ \E i \in DestructiveAt : log[i].verb = "Execute"


\* C32: in the cleanup of the dependent restores, every restore made from the
\* backup gets both steps, the deletion of its object and the deletion of its
\* metadata in the store, whatever the outcome of the other step or of the
\* steps of an earlier restore; each failed step adds one error to the list,
\* and the run goes on to the deletion of the backup.
C32_BothStepsAttempted ==
    [][(pc = "restores" /\ pc' # pc) =>
          LET mine  == RestoresOf(cur.backupName)
              added == SubSeq(log', Len(log) + 1, Len(log'))
              new   == SubSeq(errs', Len(errs) + 1, Len(errs'))
              failed == {i \in DOMAIN added : ~added[i].ok}
          IN  /\ \A r \in mine :
                    /\ \E i \in DOMAIN added : /\ added[i].verb = "delete"
                                               /\ added[i].res = "restores"
                                               /\ added[i].name = r
                    /\ \E i \in DOMAIN added : /\ added[i].verb = "DeleteRestore"
                                               /\ added[i].res = "storage"
                                               /\ added[i].name = r
              /\ Len(added) = 2 * Cardinality(mine)
              /\ Len(errs') >= Len(errs)
              /\ SubSeq(errs', 1, Len(errs)) = errs
              /\ Len(new) = Cardinality(failed)
              /\ pc' = "backup"]_vars

\* the object of the first restore and the metadata of the second could not be
\* deleted; the second restore's object and the first one's metadata were
C32_Witness ==
    /\ RunEnded
    /\ Call("delete", "restores", "restore-1", <<>>, FALSE) \in Calls
    /\ Call("DeleteRestore", "storage", "restore-1", <<>>, TRUE) \in Calls
    /\ Call("delete", "restores", "restore-2", <<>>, TRUE) \in Calls
    /\ Call("DeleteRestore", "storage", "restore-2", <<>>, FALSE) \in Calls
    /\ \E i \in DOMAIN log : log[i].verb = "delete" /\ log[i].res = "backups"
    /\ Len(errs) >= 2


\* the requests a step removes
Removed == (DOMAIN requests) \ (DOMAIN requests')

\* removal (a): the self-cleanup that ends a run which reached the deletion of
\* its backup takes the requests carrying that backup's name and UID labels
RemovedBySelfCleanup(n) ==
    /\ pc = "cleanup" /\ pc' = "done"
    /\ ReachedBackupDeletion
    /\ requests[n].nameLabel = GetValidName(cur.backupName)
    /\ requests[n].uidLabel = UIDOf(cur.backupName)

\* removal (b): a sweeper pass takes a request that is Processed and expired
RemovedBySweeper(n) ==
    /\ pc' = pc
    /\ sweptAt' = <<now>>
    /\ Call("delete", "deletebackuprequests", n, <<>>, TRUE) \in
          {sweepLog'[i] : i \in DOMAIN sweepLog'}
    /\ requests[n].phase = "Processed"
    /\ Expired(requests[n].created)

\* removal at the start of a run: the other requests labelled for the backup
\* of the request being processed
RemovedAsExisting(n) ==
    /\ pc = "dedupe" /\ pc' = "tracker"
    /\ n # cur.name
    /\ requests[n].nameLabel = GetValidName(cur.backupName)

\* C33 as stated: a DeleteBackupRequest is removed only by the self-cleanup of
\* a run that reached the deletion of its backup or by the sweeper when it is
\* Processed and expired.
C33_AsStated ==
    [][\A n \in Removed : RemovedBySelfCleanup(n) \/ RemovedBySweeper(n)]_vars

\* C33: a DeleteBackupRequest is removed only by the self-cleanup of a run that
\* reached the deletion of its backup, by the sweeper when it is Processed and
\* expired, or at the start of a run on another request of the same backup,
\* which deletes the existing requests labelled for that backup.
C33_RequestRemoval ==
    [][\A n \in Removed :
          \/ RemovedBySelfCleanup(n)
          \/ RemovedBySweeper(n)
          \/ RemovedAsExisting(n)]_vars

\* a run that deleted an existing request of its backup at its start and was
\* then turned away by the tracker, after a sweeper pass that deleted a request
C33_Witness ==
    /\ RunEnded
    /\ GuardHit
    /\ \E c \in Calls : c.verb = "delete" /\ c.res = "deletebackuprequests" /\ c.ok
    /\ \E i \in DOMAIN sweepLog : sweepLog[i].ok


\* ----------------------------------------------------------------- liveness
\* a step of the worker inside processQueueItem, once it holds a key
WorkerStep ==
    \/ Return
    \/ Validate
    \/ DeleteExistingDeletionRequests
    \/ CheckTracker
    \/ GetBackup
    \/ GetLocation
    \/ PatchInProgress
    \/ PatchUIDLabel
    \/ PatchDeleting
    \/ NewPluginManager
    \/ InvokeDeleteActions
    \/ DeleteSnapshots
    \/ DeleteRestores
    \/ DeleteBackup
    \/ Finalize
    \/ DeleteCollection

\* the worker keeps running, and the work queue hands out every key it holds:
\* a key that is on the queue again and again is taken at some point
Fairness ==
    /\ WF_vars(WorkerStep)
    /\ \A key \in ReqNames : SF_vars(ProcessQueueItem(key))

\* the two steps whose failure ends the run with an error: the InProgress
\* patch of the request and the Deleting patch of the backup
FatalSteps == {"inProgress", "deleting"}

\* a step of a behaviour in which the calls that fail are those of the two
\* fatal steps
LiveNext == Next /\ (nfail' # nfail => pc \in FatalSteps)

\* the worker under fair scheduling; the two patches fail at most
\* MaxFailures times, so that neither of them fails forever
LiveSpec == ControllerInit /\ [][LiveNext]_vars /\ Fairness

\* the request of the key is there and not yet Processed
Unprocessed(n) == n \in DOMAIN requests /\ requests[n].phase # "Processed"

\* C34: under the re-queue of a key whose run returned an error and fair
\* scheduling of the worker, with InProgress and Deleting patches that do not
\* fail forever, every request whose key is on the queue is eventually
\* Processed or removed; a run leaves its request un-Processed only when one
\* of the two patches failed, and then its key is queued again.
C34_EventuallyProcessed ==
    /\ \A n \in ReqNames :
          (n \in queue /\ n \in DOMAIN requests) ~> ~Unprocessed(n)
    /\ []((pc = "done" /\ Unprocessed(cur.name)) =>
             /\ ret = "err"
             /\ InProgressFailed \/ DeletingFailed)
    /\ []Requeued

\* the request's key came back MaxFailures times after a failed patch, and
\* the run that followed made the request Processed without any failure
C34_Witness ==
    /\ RunEnded
    /\ cur.name = "foo-abcde"
    /\ "bar" \notin used
    /\ nfail = MaxFailures
    /\ \A c \in Calls : c.verb \notin {"get", "contains"} => c.ok
    /\ PatchedDeleting
    /\ PatchedProcessed(<<>>)
    /\ ~Unprocessed("foo-abcde")


\* ------------------------------------------------------------- interruption
\* interruptions of the worker's process a behaviour may hold
MaxInterrupts == 1

\* the places of processRequest that follow the InProgress patch
AfterInProgress == {"uidLabel", "deleting", "plugins", "itemActions", "snapshots",
                    "restores", "backup", "finalize", "cleanup"}

\* the worker's process ends with the run at place `at`: nothing the run held
\* in memory survives, the plugin clients end with it, and the process that
\* replaces it is handed the key of every request again
Restarted(at) ==
    /\ Len(interrupted) < MaxInterrupts
    /\ interrupted' = Append(interrupted, [key |-> cur.name, backup |-> cur.backupName,
                                          at |-> at])
    /\ pc' = "idle"
    /\ queue' = queue \cup DOMAIN requests
    /\ pluginHeld' = FALSE
    /\ ret' = "none"
    /\ UNCHANGED <<requests, location, deleteItemActions, tracker, used, sweeper,
                   cur, errs, log, nfail, factoryState, guardState, labels>>

\* the run is cut between two steps
Interrupt ==
    /\ pc \in AfterInProgress
    /\ Restarted(pc)
    /\ UNCHANGED <<backups, restores, store>>

\* the run is cut inside the snapshot step, some snapshots deleted
InterruptInSnapshots ==
    /\ pc = "snapshots"
    /\ \E gone \in SUBSET GetBackupVolumeSnapshots(cur.backupName) :
          /\ gone # {}
          /\ snapshotsTaken' = snapshotsTaken \ gone
    /\ Restarted("snapshot")
    /\ UNCHANGED <<backups, restores, storeRestores, storeBackups>>

\* the run is cut inside the restore step: some restores are done with, and
\* one more is deleted from the cluster but not yet from the store
InterruptInRestores ==
    /\ pc = "restores"
    /\ \E r \in RestoresOf(cur.backupName) :
       \E done \in SUBSET (RestoresOf(cur.backupName) \ {r}) :
          /\ restores' = restores \ (done \cup {r})
          /\ storeRestores' = storeRestores \ done
    /\ Restarted("object")
    /\ UNCHANGED <<backups, storeBackups, snapshotsTaken>>

\* the run is cut inside the backup step: the Backup object is deleted, the
\* backup's data in the store is not
InterruptInBackup ==
    /\ pc = "backup"
    /\ backups' = Without(backups, {cur.backupName})
    /\ Restarted("object")
    /\ UNCHANGED <<restores, store>>

\* a step of a behaviour in which no call fails
SuccessfulStep == Next /\ nfail' = nfail

RedriveNext ==
    \/ SuccessfulStep
    \/ Interrupt
    \/ InterruptInSnapshots
    \/ InterruptInRestores
    \/ InterruptInBackup

\* the worker, its process ended and replaced at most MaxInterrupts times
RedriveSpec == ControllerInit /\ [][RedriveNext]_vars

\* the worker's run is on a key whose earlier run was interrupted
Redriven == \E i \in DOMAIN interrupted : interrupted[i].key = cur.name

\* a run on the backup was interrupted between the deletion of an object of
\* the cluster and the deletion of that object's record in the store
CutInsideObject ==
    \E i \in DOMAIN interrupted :
       interrupted[i].backup = cur.backupName /\ interrupted[i].at = "object"

\* what a successful run leaves of the backup in the cluster and at the
\* snapshot providers: nothing
ClusterGone(b) ==
    /\ b \notin DOMAIN backups
    /\ RestoresOf(b) = {}
    /\ GetBackupVolumeSnapshots(b) \cap snapshotsTaken = {}

\* what a successful run leaves of the backup in the store: nothing
StoreGone(b) ==
    /\ b \notin storeBackups
    /\ {r \in storeRestores : RestoreBackup(r) = b} = {}

\* the objects a step deletes are the backup's
OnlyOf(b) ==
    /\ (DOMAIN backups) \ (DOMAIN backups') \subseteq {b}
    /\ storeBackups \ storeBackups' \subseteq {b}
    /\ \A r \in (restores \ restores') \cup (storeRestores \ storeRestores') :
          RestoreBackup(r) = b
    /\ snapshotsTaken \ snapshotsTaken' \subseteq GetBackupVolumeSnapshots(b)

ActsOnBackup(c) ==
    \/ c.verb = "patch" /\ c.res = "backups"
    \/ c.verb = "delete" /\ c.res \in {"backups", "restores"}
    \/ c.verb \in {"DeleteSnapshot", "DeleteRestore", "DeleteBackup", "Execute"}

StepActsOnBackup ==
    /\ Len(log') > Len(log)
    /\ SubSeq(log', 1, Len(log)) = log
    /\ \E i \in (Len(log) + 1)..Len(log') : ActsOnBackup(log'[i])

\* C36 as stated: whatever the interleaving of the worker with the Add and
\* Delete calls of the backup controller, no step patches a backup to Deleting
\* or deletes anything of it while the tracker holds the backup, an entry
\* added after the run's check included.
C36_AsStated ==
    [][StepActsOnBackup => ~Contains(Namespace, cur.backupName)]_vars

\* C36: whatever the interleaving of the worker with the Add and Delete
\* calls of the backup controller, a step patches a backup to Deleting or
\* deletes anything of it only in a run whose one check of the tracker, made
\* before all of these steps, found the backup absent from it; the tracker is
\* not asked again, so an entry added after the check stops nothing.
C36_CheckedOnce ==
    [][StepActsOnBackup =>
          /\ \E k \in DOMAIN log : /\ log[k].res = "tracker"
                                    /\ log[k].arg = <<>>
                                    /\ ~log[k].ok
          /\ Cardinality({k \in DOMAIN log' : log'[k].res = "tracker"}) = 1
          /\ \A k \in DOMAIN log : ActsOnBackup(log[k]) =>
                \E j \in 1..(k - 1) : log[j].res = "tracker"]_vars

\* the backup was added to the tracker after the run's check and is in it
\* while the cascade, its restores deleted, is about to delete the backup
C36_Witness ==
    /\ pc = "backup"
    /\ cur.backupName = "foo"
    /\ Contains(Namespace, "foo")
    /\ GuardMiss
    /\ PatchedDeleting
    /\ Call("delete", "restores", "restore-1", <<>>, TRUE) \in Calls
    /\ "foo" \in DOMAIN backups


\* what DestinationClientConfig and SourceClientConfig would return if they
\* were called now and their Secret lists succeeded
DestinationWould == ClientConfigFor(destClusterSecretName, 2).result
SourceWould == ClientConfigFor(srcClusterSecretName, 2).result

\* a configuration without the proxy on its transport
WithoutProxy(c) == [c EXCEPT !.proxy = ""]

FoundBy(c) ==
    IF c.reads = <<>> THEN NoCreds
    ELSE IF Held(remoteClusterSecretName) # NoCreds THEN Held(remoteClusterSecretName)
    ELSE IF Len(c.reads) = 2 THEN Held(c.reads[2])
    ELSE NoCreds

\* C38: SrcClusterHost() is the host of the credentials found by the last
\* SourceClientConfig call that found any, and empty before; a call that finds
\* none leaves it as it is; SourceClientConfig leaves DestClusterHost() alone
\* and DestinationClientConfig leaves SrcClusterHost() alone; no other step
\* changes either, and what a resolution returns is made of the credentials it
\* found, not of a recorded host.
C38_RecordedHosts ==
    [][/\ (Resolved /\ config'.role = "source") =>
             /\ srcClusterHost' = IF FoundBy(config') # NoCreds
                                     THEN FoundBy(config').host ELSE srcClusterHost
             /\ destClusterHost' = destClusterHost
       /\ (Resolved /\ config'.role = "destination") =>
             /\ destClusterHost' = IF FoundBy(config') # NoCreds
                                      THEN FoundBy(config').host ELSE destClusterHost
             /\ srcClusterHost' = srcClusterHost
       /\ ~Resolved => /\ srcClusterHost' = srcClusterHost
                       /\ destClusterHost' = destClusterHost
       /\ Resolved =>
             /\ (config'.kind = "config" /\ config'.kubeconfig = "") =>
                   config'.Host = FoundBy(config').host
             /\ (FoundBy(config') = NoCreds /\ config'.kind # "error") =>
                   config'.kind = "local" /\ config'.Host = ""]_vars

\* SourceClientConfig fell back to the local cluster after an earlier call
\* had recorded a host, which is still there, next to the destination's
C38_Witness ==
    /\ config.role = "source"
    /\ config.kind = "local"
    /\ srcClusterHost = "https://a"
    /\ destClusterHost = "https://b"


\* the Secrets read by the call that carry a proxy, by their place among
\* the call's reads
ReadsWithProxy(c) == {i \in DOMAIN c.reads : Held(c.reads[i]).httpsProxy # ""}

WouldDo ==
    [name \in {srcClusterSecretName, destClusterSecretName} |->
        [listed \in 0..2 |-> ClientConfigFor(name, listed)]]

\* a Secret without any of the four values has been created or deleted
EmptySecretComesOrGoes ==
    /\ DOMAIN secrets' # DOMAIN secrets
    /\ \A name \in SecretNames : Held(name)' = Held(name)

\* C40: a Secret that is there with host, sa-token, kubeconfig and
\* https_proxy all empty is treated as a Secret that is not there, as the
\* shared Secret and as the role's: creating or deleting it changes nothing
\* of what a resolution does, the role's Secret is read after such a shared
\* Secret, and the local configuration is returned after such a role's
\* Secret. A Secret with any of the four values counts as found: the shared
\* one ends the search, and without a kubeconfig the configuration is made
\* of its host and token, a Secret with a proxy only included.
C40_EmptyIsAbsent ==
    [][/\ EmptySecretComesOrGoes => WouldDo' = WouldDo
       /\ (Resolved /\ config'.reads # <<>>) =>
             LET c == config'
                 shared == Held(remoteClusterSecretName)
                 own == Held(RoleSecretName(c.role))
             IN  /\ shared = NoCreds =>
                       \/ c.reads = <<remoteClusterSecretName>> /\ c.kind = "error"
                       \/ c.reads = <<remoteClusterSecretName, RoleSecretName(c.role)>>
                 /\ (shared = NoCreds /\ own = NoCreds /\ Len(c.reads) = 2) =>
                       c.kind = "local"
                 /\ shared # NoCreds => /\ c.reads = <<remoteClusterSecretName>>
                                        /\ c.kind # "local"
                 /\ (FoundBy(c) # NoCreds /\ FoundBy(c).kubeconfig = "") =>
                       /\ c.kind = "config"
                       /\ c.Host = FoundBy(c).host
                       /\ c.BearerToken = FoundBy(c).saToken
                       /\ c.Insecure
                       /\ c.kubeconfig = ""]_vars

\* the shared Secret and the source Secret are there without any value, and
\* SourceClientConfig has read both and returned the local configuration
C40_Witness ==
    /\ config.role = "source"
    /\ config.kind = "local"
    /\ config.reads = <<remoteClusterSecretName, srcClusterSecretName>>
    /\ remoteClusterSecretName \in DOMAIN secrets
    /\ srcClusterSecretName \in DOMAIN secrets
    /\ secrets[remoteClusterSecretName] = NoCreds
    /\ secrets[srcClusterSecretName] = NoCreds

====
